---- MODULE Spec2Model ----
(***************************************************************************)
(* hubot-ollama: the tool-calling workflow of askOllama / handlePrompt     *)
(* (src/src/hubot-ollama.js) together with the tool registry               *)
(* (src/src/tool-registry.js).                                             *)
(*                                                                         *)
(* One action is the code that runs between two awaits of the run: the     *)
(* model transport (ollama.chat, ollama.show) and the tool handlers are    *)
(* the environment, their replies are drawn from small sets.               *)
(***************************************************************************)
EXTENDS Integers, Sequences, FiniteSets, TLC

VARIABLES
  toolsEnabled,              \* TOOLS_ENABLED
  streamEnabled,             \* STREAM_ENABLED
  tools,                     \* the registry: the registered tool names
  modelSupportsCached,       \* "null" | "yes" | "no"
  pc,                        \* position of the run
  toolsArray,                \* tool catalog advertised to the model
  messages,                  \* tail of the message list of the run
  toolName,                  \* tool selected by the first reply
  chainedToolName,           \* tool selected by the current reply of the loop
  currentResponse,           \* the reply being processed
  toolIterationCount,
  webSearchAlreadyPerformed,
  timer,                     \* "off" | "armed" | "fired"
  lastRequest,               \* the last request handed to ollama.chat
  outcome,                   \* what handlePrompt sent to the user
  answer,                    \* text of the answer, when outcome = "answer"
  diagCount,                 \* iteration count named by the diagnostic
  exitPath,                  \* the statement that ended askOllama
  \* history of the run, read by the properties only
  modelCalls,                \* ollama.chat calls issued by the run
  loopCalls,                 \* of which: issued by the loop of phase 3
  handlerExecs,              \* tool handlers started by the run
  replyCount,                \* replies received by the run
  lastResult,                \* outcome of the handler that just returned
  expiredInFlight,           \* the timer fired before the run ended
  searchSucceeded,           \* a web search of the run succeeded
  searchFault,               \* "none" | "skipNoSuccess" | "execAfterSuccess"
  emptyStreak,               \* consecutive empty tool results
  namelessCount,             \* tool calls of the run with an empty tool name
  searchExecs,               \* web search handlers started by the run
  handled,                   \* what the last step of the run did with a tool
                             \* call, and the messages it pushed for it
  \* the conversation memory (robot.brain 'ollamaContexts') and handlePrompt
  contextScope,              \* CONTEXT_SCOPE
  contextTtlMs,              \* CONTEXT_TTL_MS
  contextTurns,              \* CONTEXT_TURNS
  contexts,                  \* ollamaContexts: context key -> context
  now,                       \* Date.now()
  pending,                   \* messages whose handlePrompt awaits askOllama
  request,                   \* the last call of askOllama: message and history
  sent,                      \* the last message handlePrompt sent to a user,
                             \* and the result of askOllama it was sent on
  contextLog,                \* the last debug line of the context functions
  webFetchConcurrency,       \* WEB_FETCH_CONCURRENCY
  ollamaFetchedUrls,         \* robot.brain's ollamaFetchedUrls: key -> urls
  invocations,               \* each invocation of askOllama: new, active,
                             \* returned or threw
  tempSeq,                   \* how many temporary keys were generated
  keyOwner,                  \* who created each key of ollamaFetchedUrls
  fetchedBy,                 \* the urls each invocation got pages for
  call,                      \* the web fetch call in progress or last made
  fetchResult,               \* what the handler returned
  batch,                     \* runWebFetchMany: urls
  idx,                       \* runWebFetchMany: idx
  inFlight,                  \* the indices whose webFetch is awaited
  results,                   \* runWebFetchMany: results
  outcomes,                  \* whether the webFetch of each index returned or
                             \* threw
  \* the registry with its definition objects, and a caller of getTools
  toolDefs,                  \* tool-registry.js tools: name -> tool object
  returnedTools,             \* the value getTools returned to a caller:
                             \* name -> the registry's own object or another
  lastOp,                    \* the last call on the registry or on that value
  \* the summaries of the contexts and the summarization tasks
  summaries,                 \* context key -> summary of the context
  summarizedUntil,           \* context key -> turns the summary covers
  summaryLocks,              \* the context keys whose lock is held
  summaryTasks,              \* the summarizations awaiting the transport
  sumEvent,                  \* what the last storeTurn or summarization did
  \* the overlapping prompts around probeModelToolsSupport
  probes,                    \* prompt -> where its askOllama stands with the
                             \* probe, and what the probe returned to it
  showCalls,                 \* how many times ollama.show was called
  \* hubot-script.js: one prompt of the process-spawning implementation
  child,                     \* the spawned ollama process
  killTimer,                 \* the setTimeout that kills the child
  timedOut,                  \* askOllama: timedOut
  childErrored,              \* the child emitted 'error'
  output,                    \* askOllama: output, as the chunks appended
  errorOutput,               \* askOllama: errorOutput, as the chunks appended
  callbacks,                 \* the invocations of the completion callback
  scriptSent,                \* what msg.send was given for the prompt
  wasTruncated               \* robot.respond: wasTruncated

runVars == <<toolsEnabled, streamEnabled, tools, modelSupportsCached, pc,
          toolsArray, messages, toolName, chainedToolName, currentResponse,
          toolIterationCount, webSearchAlreadyPerformed, timer, lastRequest,
          outcome, answer, diagCount, exitPath, modelCalls, loopCalls,
          handlerExecs, replyCount, lastResult, expiredInFlight,
          searchSucceeded, searchFault, emptyStreak, namelessCount,
          searchExecs, handled>>

storeVars == <<contextScope, contextTtlMs, contextTurns, contexts, now,
               pending, request, sent, contextLog>>

fetchVars == <<webFetchConcurrency, ollamaFetchedUrls, invocations, tempSeq,
               keyOwner, fetchedBy, call, fetchResult, batch, idx, inFlight,
               results, outcomes>>

runVarsButTools == <<toolsEnabled, streamEnabled, modelSupportsCached, pc,
                    toolsArray, messages, toolName, chainedToolName, currentResponse,
                    toolIterationCount, webSearchAlreadyPerformed, timer, lastRequest,
                    outcome, answer, diagCount, exitPath, modelCalls, loopCalls,
                    handlerExecs, replyCount, lastResult, expiredInFlight,
                    searchSucceeded, searchFault, emptyStreak, namelessCount,
                    searchExecs, handled>>

regVars == <<toolDefs, returnedTools, lastOp>>

sumVars == <<summaries, summarizedUntil, summaryLocks, summaryTasks, sumEvent>>

probeVars == <<probes, showCalls>>

spawnVars == <<child, killTimer, timedOut, childErrored, output, errorOutput,
               callbacks, scriptSent, wasTruncated>>

runVarsButCache == <<toolsEnabled, streamEnabled, tools, pc,
          toolsArray, messages, toolName, chainedToolName, currentResponse,
          toolIterationCount, webSearchAlreadyPerformed, timer, lastRequest,
          outcome, answer, diagCount, exitPath, modelCalls, loopCalls,
          handlerExecs, replyCount, lastResult, expiredInFlight,
          searchSucceeded, searchFault, emptyStreak, namelessCount,
          searchExecs, handled>>

vars == <<runVars, storeVars, fetchVars, regVars, sumVars, probeVars,
          spawnVars>>

-----------------------------------------------------------------------------
(* Bounds of the model *)

MaxCount == 6        \* modelCalls and loopCalls saturate here
MaxExecs == 2        \* handlerExecs saturates here
MaxReplies == 3      \* replyCount saturates here
MaxStreak == 2       \* emptyStreak saturates here
MaxMsgs == 3         \* messages keeps the last MaxMsgs entries of the list
MaxNameless == 2     \* namelessCount saturates here
MaxSearchExecs == 4  \* searchExecs saturates here
MaxPending == 2      \* handlePrompt invocations in flight at a time
MaxContextTurns == 2 \* CONTEXT_TURNS is drawn from 1..MaxContextTurns
MaxTempKeys == 2     \* temporary keys the web fetch handler generates
MaxSummarized == 2   \* summarizedUntil saturates here
MaxPrompts == 3      \* prompts whose askOllama runs may overlap
MaxShowCalls == 3    \* calls of ollama.show that are counted
MaxChunks == 2       \* chunks a child writes to each of stdout and stderr

SatTo(n, b) == IF n > b THEN b ELSE n
Sat(n) == SatTo(n, MaxCount)

\* the first n entries kept
FirstN(s, n) == IF Len(s) <= n THEN s ELSE SubSeq(s, 1, n)

\* slice(-n)
LastN(s, n) == IF Len(s) <= n THEN s ELSE SubSeq(s, Len(s) - n + 1, Len(s))

-----------------------------------------------------------------------------
(* Values *)

TimeTool == "hubot_ollama_get_current_time"
WebSearch == "hubot_ollama_web_search"
NoCall == "none"

CallNames == {TimeTool, WebSearch}

\* toolCall.function.name of a call that names no tool
Nameless == ""

\* message.content of a reply: absent/empty, blank, or a text
Contents == {"", " ", "t1", "t2"}

\* a reply: its first tool call (or none) and its content
Replies == [call : {NoCall}, content : Contents]
           \cup [call : CallNames, content : {"", "t1"}]
           \cup [call : {Nameless}, content : {""}]

NoReply == [call |-> NoCall, content |-> ""]

\* what a tool handler does: the value it resolves to, or "throw"
\*   ctx      an object with a non-empty context field
\*   data     a non-empty object without context, e.g. {results: [...]}
\*   emptyObj {} or {results: []}
\*   errObj   {error: message}
HandlerOutcomes == {"ctx", "data", "emptyObj", "errObj", "null", "undef", "throw"}

TransportErrors == {"AbortError", "ECONNREFUSED", "notfound", "other"}

NoRequest == [tools |-> {}, msgs |-> <<>>, sent |-> FALSE]

-----------------------------------------------------------------------------
(* Helpers of askOllama and handlePrompt *)

MaxToolIterations == 5

\* the test of the content inverted
TruthyInverted(c) == c = ""

\* JavaScript truthiness of a content string
Truthy(c) == c # ""

\* the test of the response inverted
BlankInverted(r) == r \notin {"", " "}

\* handlePrompt: !response || !response.trim()
Blank(r) == r \in {"", " "}

\* the workflow chosen without looking at the model's capabilities
IgnoresModelSupport(enabled, supports, snapshot) ==
  enabled /\ snapshot # {}

\* shouldUseTwoCallWorkflow
ShouldUseTwoCallWorkflow(enabled, supports, snapshot) ==
  enabled /\ supports /\ snapshot # {}

\* response.message.tool_calls is read only from a non-streamed reply
HasToolCall(reply, stream) == ~stream /\ reply.call # NoCall

\* the failure of a handler handed on as it is
UncaughtResult(o) == o

\* try { await handler() } catch (error) { { error: error.message } }
CaughtResult(o) == IF o = "throw" THEN "errObj" ELSE o

\* if (toolResults) ...
TruthyResult(r) == r \notin {"null", "undef"}

AssistantMsg(name) == [role |-> "assistant", body |-> name]
UserMsg(r) == [role |-> "user", body |-> r]
SystemMsg == [role |-> "system", body |-> "ctx"]

Push(msgs, new) == LastN(msgs \o new, MaxMsgs)

\* messages pushed for a tool call and its result
ToolMessages(name, r) ==
  <<AssistantMsg(name)>>
  \o (IF name = WebSearch /\ r = "ctx" THEN <<SystemMsg>> ELSE <<>>)
  \o <<UserMsg(r)>>

\* a tool call a step of the run dealt with: a handler was started for it
\* ("exec"), it was answered without a handler ("notfound", "skipped"), or
\* its handler returned ("result"); registered: the name was in the registry
Handled(kind, name, registered, appended) ==
  [kind |-> kind, name |-> name, registered |-> registered,
   appended |-> appended]
NoHandled == Handled("none", NoCall, FALSE, <<>>)

\* the value askOllama returned, as handlePrompt treats it
Returned(r) ==
  IF Blank(r) THEN [kind |-> "errEmptyResponse", text |-> ""]
  ELSE [kind |-> "answer", text |-> r]

\* the catch block of askOllama
MapTransportError(e) ==
  CASE e = "AbortError" -> "errTimeout"
    [] e = "ECONNREFUSED" -> "errConnection"
    [] e = "notfound" -> "errModelNotFound"
    [] OTHER -> "errOther"

\* an empty tool result: an error, zero results, or an empty object
IsEmptyResult(r) == r \in {"errObj", "emptyObj", "notfound"}

\* a web search that produced results
SearchSucceeded(o) == o \in {"ctx", "data"}

-----------------------------------------------------------------------------
(* The conversation memory: getContextKey, getConversationHistory,         *)
(* storeConversationTurn                                                   *)

Scopes == {"room-user", "room", "thread"}

\* CONTEXT_TTL_MS when the environment does not set it
ContextTtlDefault == 600000

\* the instants Date.now() takes
Times == {0, 500000, 600000, 700000}

\* getThreadId(msg) of a message outside any thread
NoThread == ""

\* the messages of the chat: room, user id, thread and prompt of each; the
\* last one carries a prompt of white space only
Msgs ==
  { [room |-> "dev", user |-> "ops:ann", thread |-> NoThread, text |-> "q1"],
    [room |-> "dev:ops", user |-> "ann", thread |-> NoThread, text |-> "q2"],
    [room |-> "dev", user |-> "ann", thread |-> "t7", text |-> "q3"],
    [room |-> "dev", user |-> "ann", thread |-> NoThread, text |-> " "] }

NoMsg == [room |-> "", user |-> "", thread |-> NoThread, text |-> ""]

\* getUserInfo(msg).id
UserId(m) == IF m.user = "" THEN "unknown-user" ELSE m.user

\* getContextKey under the scope s
ContextKey(s, m) ==
  LET roomId == IF m.room = "" THEN "direct" ELSE m.room
  IN IF s = "thread"
       THEN IF m.thread # NoThread THEN roomId \o "#" \o m.thread ELSE roomId
       ELSE IF s = "room" THEN roomId
       ELSE roomId \o ":" \o UserId(m)

GetContextKey(m) == ContextKey(contextScope, m)

AllKeys == {ContextKey(s, m) : s \in Scopes, m \in Msgs}

\* contexts[key] of a key the store does not hold
NoContext == [present |-> FALSE, history |-> <<>>, lastUpdated |-> 0]

\* the turn pushed by storeConversationTurn
Turn(m, response) ==
  [user |-> m.text, assistant |-> response,
   userId |-> IF contextScope = "room" THEN UserId(m) ELSE ""]

\* the memory switched off at no value of the TTL
MemoryAlwaysOn(ttl) == FALSE

\* CONTEXT_TTL_MS === 0
MemoryDisabled(ttl) == ttl = 0

\* a context expires as soon as its age reaches the TTL
ExpiredAtTtl(age, ttl) == age >= ttl

\* age > CONTEXT_TTL_MS
Expired(age, ttl) == age > ttl

\* the history kept whatever its length
KeepAllTurns(history, n) == history

\* if (history.length > CONTEXT_TURNS) history = history.slice(-CONTEXT_TURNS)
KeepLastTurns(history, n) ==
  IF Len(history) > n THEN LastN(history, n) ELSE history

\* getConversationHistory: the history returned, the store and the debug
\* line it leaves
GetConversationHistory(m) ==
  LET contextKey == GetContextKey(m)
      context == contexts[contextKey]
  IN IF MemoryDisabled(contextTtlMs)
       THEN [history |-> <<>>, contexts |-> contexts, log |-> "disabled"]
       ELSE IF ~context.present
         THEN [history |-> <<>>, contexts |-> contexts, log |-> contextLog]
         ELSE IF Expired(now - context.lastUpdated, contextTtlMs)
           THEN [history |-> <<>>,
                 contexts |-> [contexts EXCEPT ![contextKey] = NoContext],
                 log |-> "expired"]
           ELSE [history |-> context.history, contexts |-> contexts,
                 log |-> contextLog]

\* the history of the key replaced by the one new turn
OverwriteConversationTurn(m, response) ==
  IF MemoryDisabled(contextTtlMs)
    THEN [contexts |-> contexts, log |-> contextLog]
    ELSE [contexts |-> [contexts EXCEPT ![GetContextKey(m)] =
                          [present |-> TRUE,
                           history |-> <<Turn(m, response)>>,
                           lastUpdated |-> now]],
          log |-> "stored"]

\* storeConversationTurn: the store and the debug line it leaves
StoreConversationTurn(m, response) ==
  LET contextKey == GetContextKey(m)
      created == IF contexts[contextKey].present THEN contexts[contextKey]
                 ELSE [present |-> TRUE, history |-> <<>>, lastUpdated |-> now]
      pushed == Append(created.history, Turn(m, response))
  IN IF MemoryDisabled(contextTtlMs)
       THEN [contexts |-> contexts, log |-> contextLog]
       ELSE [contexts |-> [contexts EXCEPT ![contextKey] =
                             [present |-> TRUE,
                              history |-> KeepLastTurns(pushed, contextTurns),
                              lastUpdated |-> now]],
             log |-> "stored"]

\* what askOllama hands back to handlePrompt: a text, or an error thrown
AskErrors == {"errIterations", "errTimeout", "errConnection",
              "errModelNotFound"}

AskResults == [kind : {"return"}, text : {"", " ", "t1"}, err : {"none"}]
              \cup [kind : {"throw"}, text : {""}, err : AskErrors]

\* every text returned taken for an answer
ReturnedAny(res) == res.kind = "return"

\* the response handlePrompt stores and sends: not (!response || !response.trim())
IsAnswer(res) == res.kind = "return" /\ ~Blank(res.text)

NoStoreRequest == [from |-> NoMsg, history |-> <<>>]
NoResult == [kind |-> "none", text |-> "", err |-> "none"]
NoSent == [to |-> NoMsg, kind |-> "none", on |-> NoResult]

\* the brain holds no context
EmptyContexts == [k \in AllKeys |-> NoContext]

\* the brain holds a context an earlier run of the robot left: one turn of
\* the third message, stored at the first instant
PersistedContexts(s) ==
  LET m == [room |-> "dev", user |-> "ann", thread |-> "t7", text |-> "q3"]
  IN [k \in AllKeys |->
        IF k = ContextKey(s, m)
          THEN [present |-> TRUE,
                history |-> <<[user |-> m.text, assistant |-> "t1",
                               userId |-> IF s = "room" THEN UserId(m) ELSE ""]>>,
                lastUpdated |-> 0]
          ELSE NoContext]

\* no prompt has been handled
StoreIdle ==
  /\ contextScope = "room-user"
  /\ contextTtlMs = ContextTtlDefault
  /\ contextTurns = 1
  /\ contexts = EmptyContexts
  /\ now = 0
  /\ pending = {}
  /\ request = NoStoreRequest
  /\ sent = NoSent
  /\ contextLog = "none"

-----------------------------------------------------------------------------
(* The web fetch tool (tools/web-fetch-tool.js) and runWebFetchMany        *)

\* a text is the sequence of its characters
PageBody == <<"p", "a", "g", "e">>
Snippet  == <<"s", "n", "p">>
NoText   == <<>>

\* WEB_MAX_BYTES, in characters of the model's texts
WebMaxBytes == 2

\* the defaults of WEB_MAX_RESULTS and WEB_FETCH_CONCURRENCY
WebMaxResults == 5
WebFetchConcurrencyDefault == 3

\* the text handed on whatever its length
NoTruncate(s, max) == s

\* truncate(s, max) of utils/ollama-utils.js
Truncate(s, max) ==
  IF Len(s) > max THEN SubSeq(s, 1, max) \o <<".", ".", ".">> ELSE s

UrlNames == <<"u1", "u2", "u3", "u4", "u5">>
Urls == {"u1", "u2"}

\* the urls the model (or a direct caller) asks the tool for
UrlLists == {<<>>, <<"u1">>, <<"u2">>, <<"u1", "u2">>}

Range(s) == {s[i] : i \in 1..Len(s)}

\* the callers of the handler and of runWebFetchMany
Invocations == {"i1", "i2"}
Direct      == "direct"
SearchTool  == "search"
NoCaller    == "none"

\* args._invocationContextKey: undefined, or the key a direct caller passes
NoKey      == ""
DirectKeys == {"ctx1"}

\* `temp_${Date.now()}_${Math.random()...}`: the n-th generated key
TempKeyNames == <<"temp1", "temp2", "temp3", "temp4">>
TempKey(n) == TempKeyNames[n]
FetchKeys == DirectKeys \cup {TempKey(n) : n \in 1..MaxTempKeys}

NoEntry == [present |-> FALSE, urls |-> <<>>]
NoFetchedUrls == [k \in FetchKeys |-> NoEntry]

\* entries that carry a snippet to fall back on
SnippetEntries(urls) == [i \in 1..Len(urls) |-> [url |-> urls[i], content |-> Snippet]]

\* urlsToFetch.map(url => ({ url })): entries without a search snippet
UrlEntries(urls) == [i \in 1..Len(urls) |-> [url |-> urls[i], content |-> NoText]]

\* the entries runWebSearch returns: distinct urls, content: it.content || ''
SearchResults(n, k) ==
  [i \in 1..n |-> [url |-> UrlNames[i],
                   content |-> IF i = k THEN Snippet ELSE NoText]]
SearchBatches ==
  {SearchResults(n, k) : n \in {1, 2, WebMaxResults}, k \in {1, 3}}

\* how ollama.webFetch settles: a page, an empty body, a rejection, or the
\* abort of the per-request timer
WebFetchOutcomes == {"page", "empty", "rejects", "aborted"}
Throws(o) == o \in {"rejects", "aborted"}
Body(o) == IF o = "page" THEN PageBody ELSE NoText

Item(entry, text) == [url |-> entry.url, text |-> Truncate(text, WebMaxBytes)]

DropOnFailure(entry) == <<>>

\* the catch of the worker
FallbackItems(entry) ==
  IF entry.content # NoText THEN <<Item(entry, entry.content)>> ELSE <<>>

\* what one settled webFetch adds to results
ItemsAfter(entry, o) ==
  IF Throws(o)
    THEN FallbackItems(entry)
    ELSE <<Item(entry, IF Body(o) = NoText /\ entry.content # NoText
                         THEN entry.content ELSE Body(o))>>

\* fetchedUrls[invocationContextKey].includes(url)
AlreadyFetched(had, url) == url \in Range(had)

\* for (const page of pages) ... push(page.url)
RECURSIVE TrackFetched(_, _)
TrackFetched(had, pages) ==
  IF pages = <<>> THEN had
  ELSE TrackFetched(IF Head(pages).url \in Range(had) THEN had
                    ELSE Append(had, Head(pages).url), Tail(pages))

NoFetchCall == [phase |-> "idle", caller |-> NoCaller, key |-> NoKey,
                urls |-> <<>>, known |-> {}, skipped |-> <<>>]
NoFetchResult == [kind |-> "none", named |-> <<>>]

\* no worker runs
PoolIdle ==
  /\ batch = <<>>
  /\ idx = 0
  /\ inFlight = {}
  /\ results = <<>>
  /\ outcomes = <<>>

\* no invocation has started, nothing was fetched
FetchIdle ==
  /\ webFetchConcurrency = WebFetchConcurrencyDefault
  /\ ollamaFetchedUrls = NoFetchedUrls
  /\ invocations = [r \in Invocations |-> "new"]
  /\ tempSeq = 0
  /\ keyOwner = [k \in FetchKeys |-> NoCaller]
  /\ fetchedBy = [r \in Invocations |-> {}]
  /\ call = NoFetchCall
  /\ fetchResult = NoFetchResult
  /\ PoolIdle

-----------------------------------------------------------------------------
(* The tool registry with its definition objects (src/src/tool-registry.js) *)

\* an argument that is undefined
Undefined == "undefined"

RegNames == CallNames
NameArgs == RegNames \cup {Undefined, ""}

TimeHandler == "timeHandler"
TimeDescription == "Get the current date and time in ISO 8601 format (UTC)"

\* values of definition.handler: functions, a value that is no function,
\* undefined
Handlers == {TimeHandler, "h1"}
HandlerArgs == Handlers \cup {"text", Undefined}

\* values of definition.description
DescriptionArgs == {"d1", "", Undefined}

\* the second argument of registerTool: an object or something else
\* values of definition.name: the property is absent, or names a tool
DefinitionNames == {Undefined, WebSearch}

NoObject == [object |-> FALSE, name |-> Undefined, handler |-> Undefined,
             description |-> Undefined]
DefinitionArgs ==
  [object : {TRUE}, name : DefinitionNames, handler : HandlerArgs,
   description : DescriptionArgs]
  \cup {NoObject}

\* { name, ...definition }: a name property of the definition replaces the
\* key the tool is stored under
ToolObject(name, def) ==
  [name |-> IF def.name = Undefined THEN name ELSE def.name,
   handler |-> def.handler, description |-> def.description]
NullObject == [name |-> Undefined, handler |-> Undefined, description |-> Undefined]
BuiltInTool ==
  [name |-> TimeTool, handler |-> TimeHandler, description |-> TimeDescription]

NameIsFalsy(name) == name \in {Undefined, ""}

AnyHandler(h) == TRUE

\* typeof definition.handler === 'function'
IsFunction(h) == h \in Handlers

\* the checks of registerTool, in their order
RegisterError(name, def) ==
  IF NameIsFalsy(name) THEN "errName"
  ELSE IF ~def.object THEN "errDefinition"
  ELSE IF ~IsFunction(def.handler) THEN "errHandler"
  ELSE IF def.description \in {Undefined, ""} THEN "errDescription"
  ELSE "ok"

\* an entry of the value getTools returned: the object the registry holds
\* under the name (shared: the copy is shallow), or an object of its own
SharedEntry == [shared |-> TRUE, obj |-> NullObject]
OwnEntry(obj) == [shared |-> FALSE, obj |-> obj]
NoReturnedEntry == OwnEntry(NullObject)

\* tools[name] is assigned or deleted: a returned entry that shared the old
\* object keeps that object
Detached(copy, reg, names) ==
  [n \in RegNames |-> IF n \in names /\ copy[n].shared THEN OwnEntry(reg[n])
                      ELSE copy[n]]

\* what registry.getTools() shows
RegistryView == toolDefs

\* the object a caller puts into the value getTools returned
CallerObject == [object |-> TRUE, name |-> Undefined, handler |-> "h1",
                 description |-> "d1"]

NoOp == [op |-> "none", name |-> Undefined, def |-> NoObject, result |-> "none"]

\* the module was loaded: the built-in tool is registered (lines 41-48)
RegistryLoaded ==
  /\ toolDefs = [n \in RegNames |-> IF n = TimeTool THEN BuiltInTool ELSE NullObject]
  /\ returnedTools = [n \in RegNames |-> NoReturnedEntry]
  /\ lastOp = NoOp

-----------------------------------------------------------------------------
(* Summarization of the older turns of a context: the background task that *)
(* storeTurn starts, under a lock per context key                          *)

\* the last turns of a history are kept raw
KeepRawTurns == 2

\* fewer older turns than this are not summarized
MinTurnsToSummarize == 2

\* a summary longer than the ceiling is cut to the softer cap
SummaryCeiling == 650
SummarySoftCap == 600

\* a summary is known by its length; a context without one has summary null
NoSummary == [present |-> FALSE, len |-> 0]

\* the lengths of the texts the model transport returns for a summary
SummaryLengths == {0, 1, SummaryCeiling + 1}

\* step 6: the candidate summary as it is stored
CapSummary(len) == IF len > SummaryCeiling THEN SummarySoftCap ELSE len

\* no lock is ever seen
NeverHeld(k) == FALSE

\* step 1: a lock is already held for this key
LockHeld(k) == k \in summaryLocks

\* step 2: all but the last KeepRawTurns turns, and the last KeepRawTurns
ToSummarize(history) == SubSeq(history, 1, Len(history) - KeepRawTurns)

Keep(history) ==
  SubSeq(history, Len(history) - KeepRawTurns + 1, Len(history))

\* step 4: a prompt over the turns, or one that merges them into the summary
SummaryPrompt(summary) == IF summary.present THEN "merge" ELSE "summarize"

\* the lock left in place
KeepLock(locks, k) == locks

\* steps 7 and 8: the lock of the key released
ReleaseLock(locks, k) == locks \ {k}

\* the summarization task that awaits the model transport
SummaryTask(k, history) ==
  [key |-> k, toSummarize |-> ToSummarize(history), keep |-> Keep(history),
   prompt |-> SummaryPrompt(summaries[k])]

\* what the last call of storeTurn or the last summarization did, for a key
SumEvent(kind, k) == [kind |-> kind, key |-> k]

NoSumEvent == SumEvent("none", "")

\* the summarization tasks that run for the key
TasksOf(k) == {i \in DOMAIN summaryTasks : summaryTasks[i].key = k}

\* the sequence without its i-th entry
RemoveAt(s, i) == SubSeq(s, 1, i - 1) \o SubSeq(s, i + 1, Len(s))

\* no context has a summary and no summarization runs
SummaryIdle ==
  /\ summaries = [k \in AllKeys |-> NoSummary]
  /\ summarizedUntil = [k \in AllKeys |-> 0]
  /\ summaryLocks = {}
  /\ summaryTasks = <<>>
  /\ sumEvent = NoSumEvent

-----------------------------------------------------------------------------
(* The overlapping prompts and the spawned process *)

Prompts == 1..MaxPrompts

\* a prompt whose askOllama has not reached probeModelToolsSupport
NoProbe == [at |-> "new", returned |-> "null"]

\* no prompt has reached the probe
ProbeIdle ==
  /\ probes = [p \in Prompts |-> NoProbe]
  /\ showCalls = 0

\* no prompt was given to the process-spawning script
SpawnIdle ==
  /\ child = "none"
  /\ killTimer = "off"
  /\ timedOut = FALSE
  /\ childErrored = FALSE
  /\ output = <<>>
  /\ errorOutput = <<>>
  /\ callbacks = <<>>
  /\ scriptSent = <<>>
  /\ wasTruncated = FALSE

-----------------------------------------------------------------------------
\* no run of askOllama has started
RunIdle ==
  /\ modelSupportsCached = "null"
  /\ pc = "idle"
  /\ toolsArray = {}
  /\ messages = <<>>
  /\ toolName = NoCall
  /\ chainedToolName = NoCall
  /\ currentResponse = NoReply
  /\ toolIterationCount = 0
  /\ webSearchAlreadyPerformed = FALSE
  /\ timer = "off"
  /\ lastRequest = NoRequest
  /\ outcome = "none"
  /\ answer = ""
  /\ diagCount = 0
  /\ exitPath = "none"
  /\ modelCalls = 0
  /\ loopCalls = 0
  /\ handlerExecs = 0
  /\ replyCount = 0
  /\ lastResult = "none"
  /\ expiredInFlight = FALSE
  /\ searchSucceeded = FALSE
  /\ searchFault = "none"
  /\ emptyStreak = 0
  /\ namelessCount = 0
  /\ searchExecs = 0
  /\ handled = NoHandled

Init ==
  /\ toolsEnabled \in BOOLEAN
  /\ streamEnabled \in BOOLEAN
  /\ tools \in {{TimeTool}, {TimeTool, WebSearch}}
  /\ RunIdle
  /\ SummaryIdle
  /\ ProbeIdle
  /\ SpawnIdle
  /\ StoreIdle
  /\ FetchIdle
  /\ RegistryLoaded

-----------------------------------------------------------------------------
(* The registry *)

RegisterTool(name) ==
  /\ tools' = tools \cup {name}
  /\ UNCHANGED <<storeVars, fetchVars, regVars, sumVars, probeVars, spawnVars>>
  /\ UNCHANGED <<handled, namelessCount, searchExecs, toolsEnabled, streamEnabled, modelSupportsCached,
          pc,
          toolsArray, messages, toolName, chainedToolName, currentResponse,
          toolIterationCount, webSearchAlreadyPerformed, timer, lastRequest,
          outcome, answer, diagCount, exitPath, modelCalls, loopCalls,
          handlerExecs, replyCount, lastResult, expiredInFlight,
          searchSucceeded, searchFault, emptyStreak>>

ClearTools ==
  /\ tools' = tools \cap {TimeTool}
  /\ UNCHANGED <<storeVars, fetchVars, regVars, sumVars, probeVars, spawnVars>>
  /\ UNCHANGED <<handled, namelessCount, searchExecs, toolsEnabled, streamEnabled, modelSupportsCached,
          pc,
          toolsArray, messages, toolName, chainedToolName, currentResponse,
          toolIterationCount, webSearchAlreadyPerformed, timer, lastRequest,
          outcome, answer, diagCount, exitPath, modelCalls, loopCalls,
          handlerExecs, replyCount, lastResult, expiredInFlight,
          searchSucceeded, searchFault, emptyStreak>>

-----------------------------------------------------------------------------
(* Steps shared by the actions of a run *)

\* await ollama.chat({model, messages, stream, tools})
IssueRequest(msgs, catalog, inLoop) ==
  /\ lastRequest' = [tools |-> catalog, msgs |-> msgs, sent |-> TRUE]
  /\ modelCalls' = Sat(modelCalls + 1)
  /\ loopCalls' = IF inLoop THEN Sat(loopCalls + 1) ELSE loopCalls

NoRequestIssued == UNCHANGED <<lastRequest, modelCalls, loopCalls>>

\* clearTimeout(timeout)
ClearTimeout == timer' = IF timer = "armed" THEN "off" ELSE timer

\* askOllama returned or threw, handlePrompt sent its message
\* (path names the return or throw statement)
EndRun(res, path) ==
  /\ pc' = "done"
  /\ outcome' = res.kind
  /\ answer' = res.text
  /\ exitPath' = path

\* the code after the while loop, currentResponse = reply
AfterLoop(reply, count, path) ==
  /\ ClearTimeout
  /\ IF streamEnabled \/ Truthy(reply.content)
       THEN EndRun(Returned(reply.content), path) /\ diagCount' = diagCount
       ELSE EndRun([kind |-> "errIterations", text |-> ""], path) /\ diagCount' = count

\* `continue`: the loop condition, then the next iteration's chat call
\* (count is toolIterationCount at the `continue`)
ContinueLoop(msgs, reply, count) ==
  IF count < MaxToolIterations
    THEN /\ toolIterationCount' = count + 1
         /\ pc' = "callN"
         /\ IssueRequest(msgs, toolsArray, TRUE)
         /\ UNCHANGED <<timer, outcome, answer, diagCount, exitPath>>
    ELSE /\ toolIterationCount' = count
         /\ AfterLoop(reply, count, "loopCap")
         /\ NoRequestIssued

\* "Don't count this as an iteration since we skipped it"
SkippedCount(count) == count - 1

\* webSearchAlreadyPerformed when the loop starts
SearchPerformedAtStart(name) == name = WebSearch

\* messages pushed by the try and the catch of a chained tool call; reading
\* .context of a null or undefined search result throws after the assistant
\* message was pushed, and the catch pushes it again
ChainedMessages(name, o) ==
  IF o = "throw"
    THEN <<AssistantMsg(name), UserMsg(CaughtResult(o))>>
    ELSE IF name = WebSearch /\ ~TruthyResult(o)
      THEN <<AssistantMsg(name), AssistantMsg(name), UserMsg("errObj")>>
      ELSE ToolMessages(name, o)

\* the result the model is shown for a chained tool call
ChainedResult(name, o) ==
  IF o = "throw" \/ (name = WebSearch /\ ~TruthyResult(o)) THEN "errObj" ELSE o

\* a tool result r was produced: the run of consecutive empty results
Streak(r) == IF IsEmptyResult(r) THEN SatTo(emptyStreak + 1, MaxStreak) ELSE 0

\* the reply being processed: toolDecisionResponse, currentResponse, response
RecordReply(reply) ==
  /\ currentResponse' = reply
  /\ replyCount' = SatTo(replyCount + 1, MaxReplies)

\* a tool call was read from a reply: the calls that name no tool
CountNameless(reply, stream) ==
  namelessCount' = IF HasToolCall(reply, stream) /\ reply.call = Nameless
                     THEN SatTo(namelessCount + 1, MaxNameless)
                     ELSE namelessCount

\* selectedTool.handler(...) / chainedTool.handler(...) was started
CountSearchExec(name) ==
  searchExecs' = IF name = WebSearch THEN SatTo(searchExecs + 1, MaxSearchExecs)
                 ELSE searchExecs

\* the first departure from "a search is skipped iff an earlier one succeeded"
Fault(f) == IF searchFault = "none" THEN f ELSE searchFault

-----------------------------------------------------------------------------
(* handlePrompt and askOllama *)

\* handlePrompt up to the first await of askOllama
HandlePrompt ==
  /\ pc \in {"idle", "done"}
  /\ handled' = NoHandled
  /\ pc' = "probe"
  /\ toolsArray' = tools
  /\ messages' = <<>>
  /\ timer' = "armed"
  /\ toolName' = NoCall
  /\ chainedToolName' = NoCall
  /\ currentResponse' = NoReply
  /\ toolIterationCount' = 0
  /\ webSearchAlreadyPerformed' = FALSE
  /\ lastRequest' = NoRequest
  /\ outcome' = "none"
  /\ answer' = ""
  /\ diagCount' = 0
  /\ exitPath' = "none"
  /\ modelCalls' = 0
  /\ loopCalls' = 0
  /\ handlerExecs' = 0
  /\ replyCount' = 0
  /\ lastResult' = "none"
  /\ expiredInFlight' = FALSE
  /\ searchSucceeded' = FALSE
  /\ searchFault' = "none"
  /\ emptyStreak' = 0
  /\ namelessCount' = 0
  /\ searchExecs' = 0
  /\ UNCHANGED <<storeVars, fetchVars, regVars, sumVars, probeVars, spawnVars>>
  /\ UNCHANGED <<toolsEnabled, streamEnabled, tools, modelSupportsCached>>

\* probeModelToolsSupport returned, then the first chat call
ProbeReturns(res) ==
  /\ pc = "probe"
  /\ handled' = NoHandled
  /\ modelSupportsCached # "null" => res = modelSupportsCached
  /\ LET cached == IF modelSupportsCached # "null" THEN modelSupportsCached
                   ELSE IF res = "yes" THEN "yes" ELSE "no"
     IN /\ modelSupportsCached' = cached
        /\ IF ShouldUseTwoCallWorkflow(toolsEnabled, cached = "yes", toolsArray)
             THEN pc' = "call1" /\ IssueRequest(messages, toolsArray, FALSE)
             ELSE pc' = "single" /\ IssueRequest(messages, {}, FALSE)
  /\ UNCHANGED <<storeVars, fetchVars, regVars, sumVars, probeVars, spawnVars>>
  /\ UNCHANGED <<namelessCount, searchExecs, toolsEnabled, streamEnabled, tools,
          toolsArray, messages,
          toolName, chainedToolName, currentResponse, toolIterationCount,
          webSearchAlreadyPerformed, timer, outcome, answer, diagCount,
          exitPath, handlerExecs, replyCount, lastResult, expiredInFlight,
          searchSucceeded, searchFault, emptyStreak>>

\* the single call of the fallback returned
SingleReply(reply) ==
  /\ pc = "single"
  /\ handled' = NoHandled
  /\ RecordReply(reply)
  /\ ClearTimeout
  /\ IF streamEnabled \/ Truthy(reply.content)
       THEN EndRun(Returned(reply.content), "single")
       ELSE EndRun([kind |-> "errNoContent", text |-> ""], "single")
  /\ UNCHANGED <<storeVars, fetchVars, regVars, sumVars, probeVars, spawnVars>>
  /\ UNCHANGED <<namelessCount, searchExecs, toolsEnabled, streamEnabled, tools,
          modelSupportsCached,
          toolsArray, messages, toolName, chainedToolName,
          toolIterationCount, webSearchAlreadyPerformed, lastRequest,
          diagCount, modelCalls, loopCalls, handlerExecs, lastResult,
          expiredInFlight, searchSucceeded, searchFault, emptyStreak>>

\* ollama.chat threw: the catch block of askOllama
TransportThrows(e) ==
  /\ pc \in {"call1", "callN", "single"}
  /\ handled' = NoHandled
  /\ ClearTimeout
  /\ EndRun([kind |-> MapTransportError(e), text |-> ""], "transport")
  /\ lastResult' = "none"
  /\ UNCHANGED <<storeVars, fetchVars, regVars, sumVars, probeVars, spawnVars>>
  /\ UNCHANGED <<namelessCount, searchExecs, toolsEnabled, streamEnabled, tools,
          modelSupportsCached,
          toolsArray, messages, toolName, chainedToolName, currentResponse,
          toolIterationCount, webSearchAlreadyPerformed, lastRequest,
          diagCount, modelCalls, loopCalls, handlerExecs, replyCount,
          expiredInFlight, searchSucceeded, searchFault, emptyStreak>>

\* setTimeout(() => abortController.abort(), TIMEOUT_MS): the signal of the
\* controller is handed to no call, so the callback changes nothing else
TimeoutFires ==
  /\ timer = "armed"
  /\ timer' = "fired"
  /\ expiredInFlight' = (expiredInFlight \/ pc # "done")
  /\ UNCHANGED <<storeVars, fetchVars, regVars, sumVars, probeVars, spawnVars>>
  /\ UNCHANGED <<handled, namelessCount, searchExecs, toolsEnabled, streamEnabled, tools,
          modelSupportsCached,
          pc,
          toolsArray, messages, toolName, chainedToolName, currentResponse,
          toolIterationCount, webSearchAlreadyPerformed, lastRequest,
          outcome, answer, diagCount, exitPath, modelCalls, loopCalls,
          handlerExecs, replyCount, lastResult, searchSucceeded, searchFault,
          emptyStreak>>

\* the first chat call returned: phase 1, and phase 2 up to the handler
FirstReply(reply) ==
  /\ pc = "call1"
  /\ handled' =
       IF ~HasToolCall(reply, FALSE) THEN NoHandled
       ELSE IF reply.call \in tools THEN Handled("exec", reply.call, TRUE, <<>>)
       ELSE Handled("notfound", reply.call, FALSE,
                    ToolMessages(reply.call, "notfound"))
  /\ RecordReply(reply)
  /\ CountNameless(reply, FALSE)
  /\ IF ~HasToolCall(reply, FALSE)
       THEN /\ ClearTimeout
            /\ IF Truthy(reply.content)
                 THEN EndRun(Returned(reply.content), "direct")
                 ELSE EndRun([kind |-> "errNoContent", text |-> ""], "direct")
            /\ NoRequestIssued
            /\ UNCHANGED <<messages, toolName, toolIterationCount,
                    webSearchAlreadyPerformed, handlerExecs, emptyStreak,
                    searchExecs>>
       ELSE /\ toolName' = reply.call
            /\ IF reply.call \in tools
                 THEN /\ pc' = "exec1"
                      /\ handlerExecs' = SatTo(handlerExecs + 1, MaxExecs)
                      /\ CountSearchExec(reply.call)
                      /\ NoRequestIssued
                      /\ UNCHANGED <<messages, toolIterationCount,
                              webSearchAlreadyPerformed, emptyStreak>>
                 ELSE LET msgs == Push(messages, ToolMessages(reply.call, "notfound"))
                      IN /\ messages' = msgs
                         /\ webSearchAlreadyPerformed' = SearchPerformedAtStart(reply.call)
                         /\ toolIterationCount' = 1
                         /\ pc' = "callN"
                         /\ IssueRequest(msgs, toolsArray, TRUE)
                         /\ emptyStreak' = Streak("notfound")
                         /\ UNCHANGED <<handlerExecs, searchExecs>>
            /\ UNCHANGED <<timer, outcome, answer, exitPath>>
  /\ UNCHANGED <<storeVars, fetchVars, regVars, sumVars, probeVars, spawnVars>>
  /\ UNCHANGED <<toolsEnabled, streamEnabled, tools, modelSupportsCached,
          toolsArray, chainedToolName, diagCount, lastResult,
          expiredInFlight, searchSucceeded, searchFault>>

\* the handler of the first tool call returned or threw: rest of phase 2,
\* start of phase 3
FirstHandlerReturns(o) ==
  /\ pc = "exec1"
  /\ handled' = Handled("result", toolName, TRUE,
                         IF TruthyResult(CaughtResult(o))
                           THEN ToolMessages(toolName, CaughtResult(o)) ELSE <<>>)
  /\ lastResult' = o
  /\ LET r == CaughtResult(o)
         msgs == IF TruthyResult(r) THEN Push(messages, ToolMessages(toolName, r))
                 ELSE messages
     IN /\ messages' = msgs
        /\ emptyStreak' = Streak(r)
        /\ IF r = "null"
             THEN /\ EndRun(Returned(""), "nullResult")
                  /\ NoRequestIssued
                  /\ UNCHANGED <<toolIterationCount, webSearchAlreadyPerformed>>
             ELSE /\ webSearchAlreadyPerformed' = SearchPerformedAtStart(toolName)
                  /\ toolIterationCount' = 1
                  /\ pc' = "callN"
                  /\ IssueRequest(msgs, toolsArray, TRUE)
                  /\ UNCHANGED <<outcome, answer, exitPath>>
  /\ searchSucceeded' = (searchSucceeded \/ (toolName = WebSearch /\ SearchSucceeded(o)))
  /\ UNCHANGED <<storeVars, fetchVars, regVars, sumVars, probeVars, spawnVars>>
  /\ UNCHANGED <<namelessCount, searchExecs, toolsEnabled, streamEnabled, tools,
          modelSupportsCached,
          toolsArray, toolName, chainedToolName, currentResponse, timer,
          diagCount, handlerExecs, replyCount, expiredInFlight, searchFault>>

\* a chat call of the loop returned
LoopReply(reply) ==
  /\ pc = "callN"
  /\ handled' =
       IF ~HasToolCall(reply, streamEnabled) THEN NoHandled
       ELSE IF reply.call = WebSearch /\ webSearchAlreadyPerformed
         THEN Handled("skipped", reply.call, reply.call \in tools,
                      <<AssistantMsg(reply.call), UserMsg("skipped")>>)
       ELSE IF reply.call \in tools THEN Handled("exec", reply.call, TRUE, <<>>)
       ELSE Handled("notfound", reply.call, FALSE,
                    ToolMessages(reply.call, "notfound"))
  /\ RecordReply(reply)
  /\ CountNameless(reply, streamEnabled)
  /\ lastResult' = "none"
  /\ IF ~HasToolCall(reply, streamEnabled)
       THEN /\ AfterLoop(reply, toolIterationCount, "loopBreak")
            /\ NoRequestIssued
            /\ UNCHANGED <<messages, chainedToolName, toolIterationCount,
                    handlerExecs, searchFault, emptyStreak, searchExecs>>
       ELSE IF reply.call = WebSearch /\ webSearchAlreadyPerformed
         THEN LET msgs == Push(messages, <<AssistantMsg(reply.call), UserMsg("skipped")>>)
              IN /\ messages' = msgs
                 /\ ContinueLoop(msgs, reply, SkippedCount(toolIterationCount))
                 /\ searchFault' = IF searchSucceeded THEN searchFault
                                   ELSE Fault("skipNoSuccess")
                 /\ UNCHANGED <<chainedToolName, handlerExecs, emptyStreak,
                         searchExecs>>
         ELSE IF reply.call \in tools
           THEN /\ pc' = "execN"
                /\ chainedToolName' = reply.call
                /\ handlerExecs' = SatTo(handlerExecs + 1, MaxExecs)
                /\ CountSearchExec(reply.call)
                /\ searchFault' = IF reply.call = WebSearch /\ searchSucceeded
                                    THEN Fault("execAfterSuccess") ELSE searchFault
                /\ NoRequestIssued
                /\ UNCHANGED <<messages, toolIterationCount, timer, outcome,
                        answer, diagCount, exitPath, emptyStreak>>
           ELSE LET msgs == Push(messages, ToolMessages(reply.call, "notfound"))
                IN /\ messages' = msgs
                   /\ emptyStreak' = Streak("notfound")
                   /\ ContinueLoop(msgs, reply, toolIterationCount)
                   /\ UNCHANGED <<chainedToolName, handlerExecs, searchFault,
                           searchExecs>>
  /\ UNCHANGED <<storeVars, fetchVars, regVars, sumVars, probeVars, spawnVars>>
  /\ UNCHANGED <<toolsEnabled, streamEnabled, tools, modelSupportsCached,
          toolsArray, toolName, webSearchAlreadyPerformed, expiredInFlight,
          searchSucceeded>>

\* the handler of a chained tool call returned or threw
ChainedHandlerReturns(o) ==
  /\ pc = "execN"
  /\ handled' = Handled("result", chainedToolName, TRUE,
                         ChainedMessages(chainedToolName, o))
  /\ lastResult' = o
  /\ LET msgs == Push(messages, ChainedMessages(chainedToolName, o))
     IN /\ messages' = msgs
        /\ ContinueLoop(msgs, currentResponse, toolIterationCount)
  /\ webSearchAlreadyPerformed' =
       (webSearchAlreadyPerformed \/ (chainedToolName = WebSearch /\ o = "ctx"))
  /\ emptyStreak' = Streak(ChainedResult(chainedToolName, o))
  /\ searchSucceeded' =
       (searchSucceeded \/ (chainedToolName = WebSearch /\ SearchSucceeded(o)))
  /\ UNCHANGED <<storeVars, fetchVars, regVars, sumVars, probeVars, spawnVars>>
  /\ UNCHANGED <<namelessCount, searchExecs, toolsEnabled, streamEnabled, tools,
          modelSupportsCached,
          toolsArray, toolName, chainedToolName, currentResponse,
          handlerExecs, replyCount, expiredInFlight, searchFault>>

-----------------------------------------------------------------------------
\* the steps the transport and the handlers owe a run that waits for them
Progress ==
  \/ \E res \in {"yes", "no", "throw"} : ProbeReturns(res)
  \/ \E reply \in Replies : FirstReply(reply)
  \/ \E o \in HandlerOutcomes : FirstHandlerReturns(o)
  \/ \E reply \in Replies : LoopReply(reply)
  \/ \E o \in HandlerOutcomes : ChainedHandlerReturns(o)
  \/ \E reply \in Replies : SingleReply(reply)
  \/ \E e \in TransportErrors : TransportThrows(e)

Next ==
  \/ HandlePrompt
  \/ \E res \in {"yes", "no", "throw"} : ProbeReturns(res)
  \/ \E reply \in Replies : FirstReply(reply)
  \/ \E o \in HandlerOutcomes : FirstHandlerReturns(o)
  \/ \E reply \in Replies : LoopReply(reply)
  \/ \E o \in HandlerOutcomes : ChainedHandlerReturns(o)
  \/ \E reply \in Replies : SingleReply(reply)
  \/ \E e \in TransportErrors : TransportThrows(e)
  \/ TimeoutFires
  \/ \E name \in CallNames : RegisterTool(name)
  \/ ClearTools

Spec == Init /\ [][Next]_vars

\* every model call and every tool handler eventually returns
FairSpec == Spec /\ WF_vars(Progress)

-----------------------------------------------------------------------------
(* handlePrompt over the conversation memory. askOllama is the environment *)
(* here: it is handed the history and it returns a text or throws.         *)

StoreInit ==
  /\ contextScope \in Scopes
  /\ contextTtlMs \in {0, ContextTtlDefault}
  /\ contextTurns \in 1..MaxContextTurns
  /\ contexts \in {EmptyContexts, PersistedContexts(contextScope)}
  /\ now = 0
  /\ pending = {}
  /\ request = NoStoreRequest
  /\ sent = NoSent
  /\ contextLog = "none"
  /\ toolsEnabled = TRUE
  /\ streamEnabled = FALSE
  /\ tools = {TimeTool}
  /\ RunIdle
  /\ SummaryIdle
  /\ ProbeIdle
  /\ SpawnIdle
  /\ FetchIdle
  /\ RegistryLoaded

\* handlePrompt up to the await of askOllama
PromptArrives(m) ==
  /\ m \notin pending
  /\ Cardinality(pending) < MaxPending
  /\ IF Blank(m.text)
       THEN /\ sent' = [to |-> m, kind |-> "emptyPrompt", on |-> NoResult]
            /\ UNCHANGED <<contexts, pending, request, contextLog>>
       ELSE LET got == GetConversationHistory(m)
            IN /\ contexts' = got.contexts
               /\ contextLog' = got.log
               /\ request' = [from |-> m, history |-> got.history]
               /\ pending' = pending \cup {m}
               /\ UNCHANGED sent
  /\ UNCHANGED <<contextScope, contextTtlMs, contextTurns, now>>
  /\ UNCHANGED <<runVars, fetchVars, regVars, sumVars, probeVars, spawnVars>>

\* askOllama returned or threw: the rest of handlePrompt
PromptSettles(m, res) ==
  /\ m \in pending
  /\ pending' = pending \ {m}
  /\ IF res.kind = "throw"
       THEN /\ sent' = [to |-> m, kind |-> res.err, on |-> res]
            /\ UNCHANGED <<contexts, contextLog>>
       ELSE IF ~IsAnswer(res)
         THEN /\ sent' = [to |-> m, kind |-> "errEmptyResponse", on |-> res]
              /\ UNCHANGED <<contexts, contextLog>>
         ELSE LET stored == StoreConversationTurn(m, res.text)
              IN /\ contexts' = stored.contexts
                 /\ contextLog' = stored.log
                 /\ sent' = [to |-> m, on |-> res,
                             kind |-> IF streamEnabled THEN "streamed" ELSE "answer"]
  /\ UNCHANGED <<contextScope, contextTtlMs, contextTurns, now, request>>
  /\ UNCHANGED <<runVars, fetchVars, regVars, sumVars, probeVars, spawnVars>>

\* time passes
Tick(t) ==
  /\ t > now
  /\ now' = t
  /\ UNCHANGED <<contextScope, contextTtlMs, contextTurns, contexts, pending,
          request, sent, contextLog>>
  /\ UNCHANGED <<runVars, fetchVars, regVars, sumVars, probeVars, spawnVars>>

StoreNext ==
  \/ \E m \in Msgs : PromptArrives(m)
  \/ \E m \in Msgs, res \in AskResults : PromptSettles(m, res)
  \/ \E t \in Times : Tick(t)

StoreSpec == StoreInit /\ [][StoreNext]_vars

-----------------------------------------------------------------------------
(* The web fetch tool: handler calls of the invocations of askOllama and   *)
(* of direct callers, over the brain's ollamaFetchedUrls                   *)

Max(a, b) == IF a < b THEN b ELSE a

\* Math.min
Min(a, b) == IF a < b THEN a ELSE b

\* the cursor left where it is
SameIndex(cursor) == cursor

\* const i = idx++, in the indices of the model, which start at 1
NextIndex(cursor) == cursor + 1

\* runWebFetchMany up to the first await of every worker
StartWorkers(entries) ==
  /\ batch' = entries
  /\ idx' = Min(webFetchConcurrency, Len(entries))
  /\ inFlight' = 1..Min(webFetchConcurrency, Len(entries))
  /\ results' = <<>>
  /\ outcomes' = [i \in 1..Len(entries) |-> "none"]

NoWorkers ==
  /\ batch' = <<>>
  /\ idx' = 0
  /\ inFlight' = {}
  /\ results' = <<>>
  /\ outcomes' = <<>>

FetchInit ==
  /\ webFetchConcurrency \in {1, WebFetchConcurrencyDefault}
  /\ ollamaFetchedUrls = NoFetchedUrls
  /\ invocations = [r \in Invocations |-> "new"]
  /\ tempSeq = 0
  /\ keyOwner = [k \in FetchKeys |-> NoCaller]
  /\ fetchedBy = [r \in Invocations |-> {}]
  /\ call = NoFetchCall
  /\ fetchResult = NoFetchResult
  /\ PoolIdle
  /\ toolsEnabled = TRUE
  /\ streamEnabled = FALSE
  /\ tools = {TimeTool}
  /\ RunIdle
  /\ SummaryIdle
  /\ ProbeIdle
  /\ SpawnIdle
  /\ StoreIdle
  /\ RegistryLoaded

\* askOllama is entered for a prompt
InvocationStarts(r) ==
  /\ invocations[r] = "new"
  /\ invocations' = [invocations EXCEPT ![r] = "active"]
  /\ UNCHANGED <<webFetchConcurrency, ollamaFetchedUrls, tempSeq, keyOwner,
          fetchedBy, call, fetchResult, batch, idx, inFlight, results,
          outcomes>>
  /\ UNCHANGED <<runVars, storeVars, regVars, sumVars, probeVars, spawnVars>>

\* askOllama returns its answer or throws
InvocationEnds(r, how) ==
  /\ invocations[r] = "active"
  /\ ~(call.phase = "fetching" /\ call.caller = r)
  /\ invocations' = [invocations EXCEPT ![r] = how]
  /\ UNCHANGED <<webFetchConcurrency, ollamaFetchedUrls, tempSeq, keyOwner,
          fetchedBy, call, fetchResult, batch, idx, inFlight, results,
          outcomes>>
  /\ UNCHANGED <<runVars, storeVars, regVars, sumVars, probeVars, spawnVars>>

\* the handler up to its return or to the await of runWebFetchMany
FetchToolCalled(caller, keyArg, urls) ==
  /\ call.phase # "fetching"
  /\ caller \in Invocations => (invocations[caller] = "active" /\ keyArg = NoKey)
  /\ (urls # <<>> /\ keyArg = NoKey) => tempSeq < MaxTempKeys
  /\ IF urls = <<>>
       THEN /\ fetchResult' = [kind |-> "errNoUrls", named |-> <<>>]
            /\ call' = [phase |-> "returned", caller |-> caller, key |-> NoKey,
                        urls |-> urls, known |-> {}, skipped |-> <<>>]
            /\ NoWorkers
            /\ UNCHANGED <<ollamaFetchedUrls, tempSeq, keyOwner>>
       ELSE LET key == IF keyArg = NoKey THEN TempKey(tempSeq + 1) ELSE keyArg
                had == ollamaFetchedUrls[key].urls
                alreadyFetched == SelectSeq(urls, LAMBDA u : AlreadyFetched(had, u))
                urlsToFetch == SelectSeq(urls, LAMBDA u : ~AlreadyFetched(had, u))
                known == IF caller \in Invocations THEN fetchedBy[caller]
                         ELSE Range(had)
            IN /\ tempSeq' = IF keyArg = NoKey THEN tempSeq + 1 ELSE tempSeq
               /\ ollamaFetchedUrls' = [ollamaFetchedUrls EXCEPT
                                          ![key] = [present |-> TRUE, urls |-> had]]
               /\ keyOwner' = IF ollamaFetchedUrls[key].present THEN keyOwner
                              ELSE [keyOwner EXCEPT ![key] = caller]
               /\ IF urlsToFetch = <<>>
                    THEN /\ fetchResult' = [kind |-> "errAllFetched",
                                            named |-> alreadyFetched]
                         /\ call' = [phase |-> "returned", caller |-> caller,
                                     key |-> key, urls |-> urls, known |-> known,
                                     skipped |-> alreadyFetched]
                         /\ NoWorkers
                    ELSE /\ fetchResult' = NoFetchResult
                         /\ call' = [phase |-> "fetching", caller |-> caller,
                                     key |-> key, urls |-> urls, known |-> known,
                                     skipped |-> alreadyFetched]
                         /\ StartWorkers(UrlEntries(urlsToFetch))
  /\ UNCHANGED <<webFetchConcurrency, invocations, fetchedBy>>
  /\ UNCHANGED <<runVars, storeVars, regVars, sumVars, probeVars, spawnVars>>

\* the handler after runWebFetchMany returned pages
HandlerResumes(pages) ==
  /\ call' = [call EXCEPT !.phase = "returned"]
  /\ IF pages = <<>>
       THEN /\ fetchResult' = [kind |-> "errNoPages", named |-> <<>>]
            /\ UNCHANGED <<ollamaFetchedUrls, fetchedBy>>
       ELSE /\ fetchResult' = [kind |-> "pages", named |-> <<>>]
            /\ ollamaFetchedUrls' =
                 [ollamaFetchedUrls EXCEPT ![call.key].urls = TrackFetched(@, pages)]
            /\ fetchedBy' = IF call.caller \in Invocations
                 THEN [fetchedBy EXCEPT ![call.caller] =
                         @ \cup {pages[i].url : i \in 1..Len(pages)}]
                 ELSE fetchedBy

\* the search tool after runWebFetchMany returned pages
SearchResumes ==
  /\ call' = [call EXCEPT !.phase = "returned"]
  /\ fetchResult' = [kind |-> "pages", named |-> <<>>]
  /\ UNCHANGED <<ollamaFetchedUrls, fetchedBy>>

\* one webFetch settles: the rest of the worker's loop body, its next turn
\* of the loop, and what follows Promise.all when it was the last worker
WebFetchSettles(i, o) ==
  /\ call.phase = "fetching"
  /\ i \in inFlight
  /\ LET pages == results \o ItemsAfter(batch[i], o)
         more == idx < Len(batch)
         awaited == IF more THEN (inFlight \ {i}) \cup {NextIndex(idx)}
                    ELSE inFlight \ {i}
     IN /\ results' = pages
        /\ outcomes' = [outcomes EXCEPT ![i] = IF Throws(o) THEN "threw" ELSE "returned"]
        /\ idx' = IF more THEN NextIndex(idx) ELSE idx
        /\ inFlight' = awaited
        /\ IF awaited # {}
             THEN UNCHANGED <<call, fetchResult, ollamaFetchedUrls, fetchedBy>>
             ELSE IF call.caller = SearchTool THEN SearchResumes
                  ELSE HandlerResumes(pages)
  /\ UNCHANGED <<batch, webFetchConcurrency, invocations, tempSeq, keyOwner>>
  /\ UNCHANGED <<runVars, storeVars, regVars, sumVars, probeVars, spawnVars>>

FetchNext ==
  \/ \E r \in Invocations : InvocationStarts(r)
  \/ \E r \in Invocations, how \in {"returned", "threw"} : InvocationEnds(r, how)
  \/ \E caller \in Invocations \cup {Direct}, keyArg \in DirectKeys \cup {NoKey},
        urls \in UrlLists : FetchToolCalled(caller, keyArg, urls)
  \/ \E i \in 1..WebMaxResults, o \in WebFetchOutcomes : WebFetchSettles(i, o)

FetchSpec == FetchInit /\ [][FetchNext]_vars

-----------------------------------------------------------------------------
(* runWebFetchMany alone, called by the web search tool with the results   *)
(* of a search                                                             *)

FetchManyInit ==
  /\ webFetchConcurrency \in 1..WebFetchConcurrencyDefault
  /\ ollamaFetchedUrls = NoFetchedUrls
  /\ invocations = [r \in Invocations |-> "new"]
  /\ tempSeq = 0
  /\ keyOwner = [k \in FetchKeys |-> NoCaller]
  /\ fetchedBy = [r \in Invocations |-> {}]
  /\ call = NoFetchCall
  /\ fetchResult = NoFetchResult
  /\ PoolIdle
  /\ toolsEnabled = TRUE
  /\ streamEnabled = FALSE
  /\ tools = {TimeTool, WebSearch}
  /\ RunIdle
  /\ SummaryIdle
  /\ ProbeIdle
  /\ SpawnIdle
  /\ StoreIdle
  /\ RegistryLoaded

\* the search tool calls runWebFetchMany with its results
SearchFetchCalled(entries) ==
  /\ call.phase # "fetching"
  /\ call' = [phase |-> "fetching", caller |-> SearchTool, key |-> NoKey,
              urls |-> [i \in 1..Len(entries) |-> entries[i].url],
              known |-> {}, skipped |-> <<>>]
  /\ fetchResult' = NoFetchResult
  /\ StartWorkers(entries)
  /\ UNCHANGED <<webFetchConcurrency, ollamaFetchedUrls, invocations, tempSeq,
          keyOwner, fetchedBy>>
  /\ UNCHANGED <<runVars, storeVars, regVars, sumVars, probeVars, spawnVars>>

FetchManyNext ==
  \/ \E entries \in SearchBatches : SearchFetchCalled(entries)
  \/ \E i \in 1..WebMaxResults, o \in WebFetchOutcomes : WebFetchSettles(i, o)

FetchManySpec == FetchManyInit /\ [][FetchManyNext]_vars

-----------------------------------------------------------------------------
(* The registry and the callers of getTools                                *)

RegistryInit ==
  /\ RegistryLoaded
  /\ toolsEnabled = TRUE
  /\ streamEnabled = FALSE
  /\ tools = {TimeTool}
  /\ RunIdle
  /\ SummaryIdle
  /\ ProbeIdle
  /\ SpawnIdle
  /\ StoreIdle
  /\ FetchIdle

Registered(reg) == {n \in RegNames : reg[n] # NullObject}

\* the tool stored before its handler and description are checked
RegisterBeforeChecks(name, def) ==
  /\ lastOp' = [op |-> "registerTool", name |-> name, def |-> def,
                result |-> RegisterError(name, def)]
  /\ IF NameIsFalsy(name) \/ ~def.object
       THEN UNCHANGED <<toolDefs, returnedTools, tools>>
       ELSE /\ toolDefs' = [toolDefs EXCEPT ![name] = ToolObject(name, def)]
            /\ returnedTools' = Detached(returnedTools, toolDefs, {name})
            /\ tools' = Registered(toolDefs')
  /\ UNCHANGED <<runVarsButTools, storeVars, fetchVars, sumVars, probeVars, spawnVars>>

\* registerTool(name, definition)
RegisterToolDef(name, def) ==
  LET err == RegisterError(name, def)
  IN /\ lastOp' = [op |-> "registerTool", name |-> name, def |-> def,
                   result |-> err]
     /\ IF err # "ok"
          THEN UNCHANGED <<toolDefs, returnedTools, tools>>
          ELSE /\ toolDefs' = [toolDefs EXCEPT ![name] = ToolObject(name, def)]
               /\ returnedTools' = Detached(returnedTools, toolDefs, {name})
               /\ tools' = Registered(toolDefs')
     /\ UNCHANGED <<runVarsButTools, storeVars, fetchVars, sumVars, probeVars, spawnVars>>

\* clearTools()
ClearToolDefs ==
  /\ toolDefs' = [n \in RegNames |-> IF n # TimeTool THEN NullObject
                                      ELSE toolDefs[n]]
  /\ returnedTools' = Detached(returnedTools, toolDefs, RegNames \ {TimeTool})
  /\ tools' = Registered(toolDefs')
  /\ lastOp' = [NoOp EXCEPT !.op = "clearTools"]
  /\ UNCHANGED <<runVarsButTools, storeVars, fetchVars, sumVars, probeVars, spawnVars>>

\* getTools(): { ...tools }
GetTools ==
  /\ returnedTools' = [n \in RegNames |-> IF toolDefs[n] = NullObject
                                           THEN NoReturnedEntry ELSE SharedEntry]
  /\ lastOp' = [NoOp EXCEPT !.op = "getTools"]
  /\ UNCHANGED toolDefs
  /\ UNCHANGED <<runVars, storeVars, fetchVars, sumVars, probeVars, spawnVars>>

\* the caller adds or replaces an entry of the returned value
CallerSetsEntry(name) ==
  /\ lastOp.op \in {"getTools", "caller"}
  /\ returnedTools' = [returnedTools EXCEPT
                         ![name] = OwnEntry(ToolObject(name, CallerObject))]
  /\ lastOp' = [NoOp EXCEPT !.op = "caller"]
  /\ UNCHANGED toolDefs
  /\ UNCHANGED <<runVars, storeVars, fetchVars, sumVars, probeVars, spawnVars>>

\* the caller deletes an entry of the returned value
CallerDeletesEntry(name) ==
  /\ lastOp.op \in {"getTools", "caller"}
  /\ returnedTools[name] # NoReturnedEntry
  /\ returnedTools' = [returnedTools EXCEPT ![name] = NoReturnedEntry]
  /\ lastOp' = [NoOp EXCEPT !.op = "caller"]
  /\ UNCHANGED toolDefs
  /\ UNCHANGED <<runVars, storeVars, fetchVars, sumVars, probeVars, spawnVars>>

SetField(obj, field, value) ==
  IF field = "handler" THEN [obj EXCEPT !.handler = value]
  ELSE [obj EXCEPT !.description = value]

\* the caller assigns a field of a returned definition
CallerSetsField(name, field, value) ==
  /\ lastOp.op \in {"getTools", "caller"}
  /\ returnedTools[name] # NoReturnedEntry
  /\ IF returnedTools[name].shared
       THEN /\ toolDefs' = [toolDefs EXCEPT ![name] = SetField(@, field, value)]
            /\ UNCHANGED returnedTools
       ELSE /\ returnedTools' = [returnedTools EXCEPT
                                   ![name].obj = SetField(@, field, value)]
            /\ UNCHANGED toolDefs
  /\ lastOp' = [NoOp EXCEPT !.op = "caller"]
  /\ UNCHANGED <<runVars, storeVars, fetchVars, sumVars, probeVars, spawnVars>>

RegistryNext ==
  \/ \E name \in NameArgs, def \in DefinitionArgs : RegisterToolDef(name, def)
  \/ ClearToolDefs
  \/ GetTools
  \/ \E name \in RegNames : CallerSetsEntry(name)
  \/ \E name \in RegNames : CallerDeletesEntry(name)
  \/ \E name \in RegNames, field \in {"handler", "description"} :
        CallerSetsField(name, field, IF field = "handler" THEN "h1" ELSE "d1")

RegistrySpec == RegistryInit /\ [][RegistryNext]_vars

-----------------------------------------------------------------------------
(* The conversation memory with summarization: calls of storeTurn and the  *)
(* summarization tasks they start                                          *)

\* the messages whose turns are stored
SummaryMsgs == {m \in Msgs : ~Blank(m.text)}

SummaryInit ==
  /\ contextScope \in Scopes
  /\ contextTtlMs = ContextTtlDefault
  /\ contextTurns = KeepRawTurns + MinTurnsToSummarize
  /\ contexts = EmptyContexts
  /\ now = 0
  /\ pending = {}
  /\ request = NoStoreRequest
  /\ sent = NoSent
  /\ contextLog = "none"
  /\ toolsEnabled = TRUE
  /\ streamEnabled = FALSE
  /\ tools = {TimeTool}
  /\ RunIdle
  /\ SummaryIdle
  /\ ProbeIdle
  /\ SpawnIdle
  /\ FetchIdle
  /\ RegistryLoaded

\* steps 1 to 4 of the summarization, up to the call of the model transport
StartSummarization(k, history) ==
  IF LockHeld(k)
    THEN /\ sumEvent' = SumEvent("skippedLocked", k)
         /\ UNCHANGED <<summaryLocks, summaryTasks>>
    ELSE IF Len(ToSummarize(history)) < MinTurnsToSummarize
      THEN /\ sumEvent' = SumEvent("skippedShort", k)
           /\ UNCHANGED <<summaryLocks, summaryTasks>>
      ELSE /\ summaryLocks' = summaryLocks \cup {k}
           /\ summaryTasks' = Append(summaryTasks, SummaryTask(k, history))
           /\ sumEvent' = SumEvent("started", k)

\* storeTurn: the turn stored as storeConversationTurn stores it, then the
\* summarization scheduled when the history exceeds the turns kept raw
StoreTurn(m, response) ==
  LET k == GetContextKey(m)
      stored == StoreConversationTurn(m, response)
      history == stored.contexts[k].history
  IN /\ contexts' = stored.contexts
     /\ contextLog' = stored.log
     /\ IF MemoryDisabled(contextTtlMs) \/ Len(history) <= KeepRawTurns
          THEN /\ sumEvent' = SumEvent("notScheduled", k)
               /\ UNCHANGED <<summaryLocks, summaryTasks>>
          ELSE StartSummarization(k, history)
     /\ UNCHANGED <<summaries, summarizedUntil>>
     /\ UNCHANGED <<contextScope, contextTtlMs, contextTurns, now, pending,
             request, sent>>
     /\ UNCHANGED <<runVars, fetchVars, regVars, probeVars, spawnVars>>

\* steps 5 to 7: the model transport returned a text of the length len
SummarizationReturns(i, len) ==
  /\ i \in DOMAIN summaryTasks
  /\ LET task == summaryTasks[i]
         k == task.key
     IN /\ summaryTasks' = RemoveAt(summaryTasks, i)
        /\ summaryLocks' = ReleaseLock(summaryLocks, k)
        /\ IF len = 0
             THEN /\ sumEvent' = SumEvent("empty", k)
                  /\ UNCHANGED <<contexts, summaries, summarizedUntil>>
             ELSE /\ contexts' = [contexts EXCEPT ![k].history = task.keep]
                  /\ summaries' =
                       [summaries EXCEPT ![k] =
                          [present |-> TRUE, len |-> CapSummary(len)]]
                  /\ summarizedUntil' =
                       [summarizedUntil EXCEPT ![k] =
                          SatTo(@ + Len(task.toSummarize), MaxSummarized)]
                  /\ sumEvent' = SumEvent("summarized", k)
  /\ UNCHANGED <<contextScope, contextTtlMs, contextTurns, now, pending,
          request, sent, contextLog>>
  /\ UNCHANGED <<runVars, fetchVars, regVars, probeVars, spawnVars>>

SummaryFailures == {"failed", "timeout"}

\* step 8: the model transport threw, or the timeout of the task fired
SummarizationFails(i, failure) ==
  /\ i \in DOMAIN summaryTasks
  /\ summaryTasks' = RemoveAt(summaryTasks, i)
  /\ summaryLocks' = ReleaseLock(summaryLocks, summaryTasks[i].key)
  /\ sumEvent' = SumEvent(failure, summaryTasks[i].key)
  /\ UNCHANGED <<summaries, summarizedUntil>>
  /\ UNCHANGED storeVars
  /\ UNCHANGED <<runVars, fetchVars, regVars, probeVars, spawnVars>>

SummaryNext ==
  \/ \E m \in SummaryMsgs : StoreTurn(m, "t1")
  \/ \E i \in 1..Cardinality(AllKeys), len \in SummaryLengths :
       SummarizationReturns(i, len)
  \/ \E i \in 1..Cardinality(AllKeys), failure \in SummaryFailures :
       SummarizationFails(i, failure)

SummarySpec == SummaryInit /\ [][SummaryNext]_vars

-----------------------------------------------------------------------------
(* probeModelToolsSupport under prompts whose askOllama runs overlap *)

\* what ollama.show answers: capabilities with or without tools, or a throw
ShowResults == {"tools", "notools", "throw"}

\* Boolean(supportsTools), and false when ollama.show threw
SupportsTools(res) == IF res = "tools" THEN "yes" ELSE "no"

ProbeInit ==
  /\ RegistryLoaded
  /\ toolsEnabled = TRUE
  /\ streamEnabled = FALSE
  /\ tools = {TimeTool}
  /\ RunIdle
  /\ SummaryIdle
  /\ ProbeIdle
  /\ SpawnIdle
  /\ StoreIdle
  /\ FetchIdle

\* askOllama of prompt p calls probeModelToolsSupport: the cached answer is
\* returned at once, otherwise ollama.show is called and awaited
PromptProbes(p) ==
  /\ probes[p].at = "new"
  /\ IF modelSupportsCached # "null"
       THEN /\ probes' = [probes EXCEPT
                            ![p] = [at |-> "done",
                                    returned |-> modelSupportsCached]]
            /\ UNCHANGED showCalls
       ELSE /\ showCalls < MaxShowCalls
            /\ probes' = [probes EXCEPT ![p].at = "show"]
            /\ showCalls' = showCalls + 1
  /\ UNCHANGED <<runVars, storeVars, fetchVars, regVars, sumVars, spawnVars>>

\* the ollama.show that prompt p awaits settles: the answer is written to
\* the cache and returned
ShowSettles(p, res) ==
  /\ probes[p].at = "show"
  /\ modelSupportsCached' = SupportsTools(res)
  /\ probes' = [probes EXCEPT
                  ![p] = [at |-> "done", returned |-> SupportsTools(res)]]
  /\ UNCHANGED <<runVarsButCache, storeVars, fetchVars, regVars, sumVars,
                 spawnVars, showCalls>>

\* the prompt was answered; a later prompt takes its place
PromptEnds(p) ==
  /\ probes[p].at = "done"
  /\ probes' = [probes EXCEPT ![p] = NoProbe]
  /\ UNCHANGED <<runVars, storeVars, fetchVars, regVars, sumVars, spawnVars,
                 showCalls>>

ProbeNext ==
  \/ \E p \in Prompts : PromptProbes(p)
  \/ \E p \in Prompts, res \in ShowResults : ShowSettles(p, res)
  \/ \E p \in Prompts : PromptEnds(p)

ProbeSpec == ProbeInit /\ [][ProbeNext]_vars

-----------------------------------------------------------------------------
(* hubot-script.js: a prompt answered by a spawned ollama process *)

\* the prompts robot.respond is given: blank, within MAX_PROMPT_CHARS, longer
PromptKinds == {"blank", "short", "long"}

\* the chunks the child writes to stdout and to stderr
StdoutChunks == {" ", "t"}

StderrChunks == {"not found", "warn"}

\* the codes 'close' is emitted with: zero or not
ExitCodes == {0, 1}

\* the errors 'error' is emitted with: a missing binary, or another failure
SpawnErrors == {"ENOENT", "EACCES"}

\* String.prototype.trim over the chunks appended: the blank chunks at both
\* ends are dropped
Trim(chunks) ==
  LET inked == {i \in 1..Len(chunks) : chunks[i] # " "}
  IN IF inked = {} THEN <<>>
     ELSE SubSeq(chunks, CHOOSE i \in inked : \A j \in inked : i <= j,
                         CHOOSE i \in inked : \A j \in inked : j <= i)

\* the err argument of the callback: err.code and whether err.message
\* includes 'not found'
Err(code, notFound) == [code |-> code, notFound |-> notFound]

NoErr == Err("null", FALSE)

TimeoutErr == Err("timeout", FALSE)

\* new Error(`Ollama error: ${errorOutput || 'Unknown error'}`)
ExitErr(stderr) == Err("exit", \E i \in 1..Len(stderr) : stderr[i] = "not found")

\* the callback robot.respond passes to askOllama: what it sends for
\* (err, response)
ReplyTo(err, response) ==
  IF err # NoErr
    THEN IF err.code = "ENOENT" THEN <<"notAvailable">>
         ELSE IF err.notFound THEN <<"modelNotFound">>
         ELSE <<"error">>
    ELSE IF response = <<>> THEN <<"emptyResponse">>
    ELSE (IF wasTruncated THEN <<"truncatedNote">> ELSE <<>>)
           \o <<"response">>

\* callback(err, response)
Callback(err, response) ==
  /\ callbacks' = Append(callbacks, [err |-> err, response |-> response])
  /\ scriptSent' = scriptSent \o ReplyTo(err, response)

\* clearTimeout(timeout)
ClearKillTimer == killTimer' = IF killTimer = "armed" THEN "off" ELSE killTimer

SpawnInit ==
  /\ RegistryLoaded
  /\ toolsEnabled = TRUE
  /\ streamEnabled \in BOOLEAN
  /\ tools = {TimeTool}
  /\ RunIdle
  /\ SummaryIdle
  /\ ProbeIdle
  /\ SpawnIdle
  /\ StoreIdle
  /\ FetchIdle

\* robot.respond: a blank prompt is answered at once, any other spawns the
\* child, registers the listeners and arms the timeout
RespondAsks(kind) ==
  /\ child \in {"none", "closed"}
  /\ timedOut' = FALSE
  /\ childErrored' = FALSE
  /\ output' = <<>>
  /\ errorOutput' = <<>>
  /\ callbacks' = <<>>
  /\ IF kind = "blank"
       THEN /\ scriptSent' = <<"providePrompt">>
            /\ child' = "none"
            /\ killTimer' = "off"
            /\ wasTruncated' = FALSE
       ELSE /\ scriptSent' = <<>>
            /\ child' = "running"
            /\ killTimer' = "armed"
            /\ wasTruncated' = (kind = "long")
  /\ UNCHANGED <<runVars, storeVars, fetchVars, regVars, sumVars, probeVars>>

\* ollama.stdout.on('data')
StdoutData(chunk) ==
  /\ child = "running"
  /\ Len(output) < MaxChunks
  /\ output' = Append(output, chunk)
  /\ scriptSent' = IF streamEnabled /\ Trim(<<chunk>>) # <<>>
                     THEN Append(scriptSent, "chunk") ELSE scriptSent
  /\ UNCHANGED <<child, killTimer, timedOut, childErrored, errorOutput,
                 callbacks, wasTruncated>>
  /\ UNCHANGED <<runVars, storeVars, fetchVars, regVars, sumVars, probeVars>>

\* ollama.stderr.on('data')
StderrData(chunk) ==
  /\ child = "running"
  /\ Len(errorOutput) < MaxChunks
  /\ errorOutput' = Append(errorOutput, chunk)
  /\ UNCHANGED <<child, killTimer, timedOut, childErrored, output, callbacks,
                 scriptSent, wasTruncated>>
  /\ UNCHANGED <<runVars, storeVars, fetchVars, regVars, sumVars, probeVars>>

\* the setTimeout callback: timedOut is set and the child is sent SIGKILL
KillTimerFires ==
  /\ killTimer = "armed"
  /\ timedOut' = TRUE
  /\ killTimer' = "fired"
  /\ UNCHANGED <<child, childErrored, output, errorOutput, callbacks,
                 scriptSent, wasTruncated>>
  /\ UNCHANGED <<runVars, storeVars, fetchVars, regVars, sumVars, probeVars>>

\* ollama.on('close')
ChildClose(code) ==
  /\ child = "running"
  /\ child' = "closed"
  /\ ClearKillTimer
  /\ IF timedOut THEN Callback(TimeoutErr, <<>>)
     ELSE IF code # 0 THEN Callback(ExitErr(errorOutput), <<>>)
     ELSE Callback(NoErr, Trim(output))
  /\ UNCHANGED <<timedOut, childErrored, output, errorOutput, wasTruncated>>
  /\ UNCHANGED <<runVars, storeVars, fetchVars, regVars, sumVars, probeVars>>

\* ollama.on('error')
ChildError(code) ==
  /\ child = "running"
  /\ ~childErrored
  /\ childErrored' = TRUE
  /\ ClearKillTimer
  /\ Callback(Err(code, FALSE), <<>>)
  /\ UNCHANGED <<child, timedOut, output, errorOutput, wasTruncated>>
  /\ UNCHANGED <<runVars, storeVars, fetchVars, regVars, sumVars, probeVars>>

SpawnNext ==
  \/ \E kind \in PromptKinds : RespondAsks(kind)
  \/ \E chunk \in StdoutChunks : StdoutData(chunk)
  \/ \E chunk \in StderrChunks : StderrData(chunk)
  \/ KillTimerFires
  \/ \E code \in ExitCodes : ChildClose(code)
  \/ \E code \in SpawnErrors : ChildError(code)

SpawnSpec == SpawnInit /\ [][SpawnNext]_vars

-----------------------------------------------------------------------------
(* Properties *)

Texts == {"t1", "t2"}

TransportOutcomes == {"errTimeout", "errConnection", "errModelNotFound", "errOther"}

LastMessage == messages[Len(messages)]

\* the tool whose result was pushed last
LastToolName == IF chainedToolName = NoCall THEN toolName ELSE chainedToolName

\* C1: the loop of phase 3 issues at most 5 model calls in one invocation
C1_LoopCallsAtMostFive == loopCalls <= 5

\* C2: every invocation that started reaches a terminal outcome, provided
\* every model call and every tool handler returns
C2_RunTerminates == (pc = "probe") ~> (pc = "done")

\* C3: when the loop ends at the iteration cap, its last reply still
\* invoking a tool, the run fails with the diagnostic naming the iteration
\* count and returns no answer
C3_CapReachedFails ==
  (pc = "done" /\ exitPath = "loopCap" /\ currentResponse.call # NoCall)
    => (outcome = "errIterations" /\ diagCount = 5)

\* C4: the first reply invokes a registered tool and the second reply is plain
\* text: the handler ran exactly once, exactly two model calls were made and
\* the answer is the text of the second reply
C4_TwoCallWorkflow ==
  (/\ pc = "done"
   /\ replyCount = 2
   /\ toolName # NoCall
   /\ ~(messages # <<>> /\ LastMessage = UserMsg("notfound"))
   /\ currentResponse.call = NoCall
   /\ currentResponse.content \in Texts)
    => (/\ outcome = "answer"
        /\ answer = currentResponse.content
        /\ modelCalls = 2
        /\ handlerExecs = 1)

C4_Witness ==
  /\ pc = "done"
  /\ replyCount = 2
  /\ toolName = TimeTool
  /\ messages = <<AssistantMsg(TimeTool), UserMsg("data")>>
  /\ currentResponse = [call |-> NoCall, content |-> "t2"]
  /\ handlerExecs = 1
  /\ answer = "t2"

\* C5: the first reply invokes no tool: the run ends after this one model call
\* with no handler executed, with the content as the answer when it is a text
\* and with an empty-response error when it is absent or blank
C5_DirectAnswer ==
  (pc = "done" /\ replyCount = 1 /\ currentResponse.call = NoCall)
    => (/\ modelCalls = 1
        /\ handlerExecs = 0
        /\ IF currentResponse.content \in Texts
             THEN outcome = "answer" /\ answer = currentResponse.content
             ELSE outcome \in {"errNoContent", "errEmptyResponse"})

C5_Witness ==
  /\ pc = "done"
  /\ exitPath = "direct"
  /\ lastRequest.tools # {}
  /\ currentResponse = [call |-> NoCall, content |-> " "]
  /\ outcome = "errEmptyResponse"

\* C6: with tools disabled, a model without the tools capability or an empty
\* catalog, the run makes exactly one model call, its request carries no tool
\* list, and no handler is executed
C6_SingleCallFallback ==
  (/\ pc \notin {"idle", "probe"}
   /\ (~toolsEnabled \/ modelSupportsCached # "yes" \/ toolsArray = {}))
    => (/\ modelCalls = 1
        /\ lastRequest.sent
        /\ lastRequest.tools = {}
        /\ handlerExecs = 0)

C6_Witness ==
  /\ pc = "done"
  /\ toolsEnabled
  /\ modelSupportsCached = "no"
  /\ WebSearch \in toolsArray
  /\ currentResponse.call = WebSearch
  /\ outcome = "answer"

C8_TimeoutEndsRun ==
  (pc = "done" /\ expiredInFlight) => outcome = "errTimeout"

\* C9: a web search is skipped if and only if an earlier web search of the
\* same invocation succeeded
C9_SearchSkippedIffSucceeded == searchFault = "none"

\* C10: the run bails out exactly when two consecutive tool results are empty,
\* and makes no further call after the second one
C10_BailOutOnTwoEmpty ==
  /\ emptyStreak >= 2 => (pc = "done" /\ outcome = "bailout")
  /\ outcome = "bailout" => emptyStreak = 2

\* C11: after two tool calls with an empty tool name and no usable recovery
\* the run has ended with the bail-out message on tool selection, and no
\* model call follows the second of them
C11_NamelessBailOut ==
  namelessCount >= 2 => (pc = "done" /\ outcome = "errToolSelection")

\* C12: the handler of the web search is started at most as often as its
\* call quota of 3 allows within one invocation
C12_SearchQuotaKept == searchExecs <= 3

\* handlePrompt called getConversationHistory for the message m in this step
Asked(m) == m \notin pending /\ m \in pending'

\* handlePrompt of the message m got the result of askOllama in this step
Settled(m) == m \in pending /\ m \notin pending'

\* the message whose prompt a stored turn holds
Origin(turn) == CHOOSE m \in Msgs : m.text = turn.user

\* two messages carry the same identifiers of the configured scope
AgreeOnScope(m1, m2) ==
  CASE contextScope = "room" -> m1.room = m2.room
    [] contextScope = "thread" -> m1.room = m2.room /\ m1.thread = m2.thread
    [] OTHER -> m1.room = m2.room /\ m1.user = m2.user

\* what getConversationHistory of a present context must do by its age
ExpiryByAge(m) ==
  LET k == GetContextKey(m)
  IN IF now - contexts[k].lastUpdated > contextTtlMs
       THEN request'.history = <<>> /\ ~contexts'[k].present
       ELSE request'.history = contexts[k].history /\ contexts'[k] = contexts[k]

\* C13: the stored history of every context key holds at most CONTEXT_TURNS
\* turns, whatever calls of storeConversationTurn and getConversationHistory
\* came before
C13_HistoryWithinTurnCap ==
  \A k \in AllKeys : Len(contexts[k].history) <= contextTurns

C13_Witness ==
  \E m \in Msgs :
    /\ request.from = m
    /\ sent.to = m
    /\ sent.kind = "answer"
    /\ m \notin pending
    /\ now = 0
    /\ contextTurns = 2
    /\ Len(request.history) = 2
    /\ contexts[GetContextKey(m)].history = <<request.history[2], Turn(m, "t1")>>

\* C14 as stated: a context older than the TTL is removed by the next
\* getConversationHistory of its key, which returns nothing; a younger one
\* is returned and kept
C14_ExpiryOnNextGet ==
  [][\A m \in Msgs :
       (Asked(m) /\ contexts[GetContextKey(m)].present) => ExpiryByAge(m)]_vars

\* C14: with the memory enabled, a context older than the TTL is removed by
\* the next getConversationHistory of its key, which returns nothing; one of
\* an age up to the TTL is returned and kept
C14_ExpiryWhenEnabled ==
  [][\A m \in Msgs :
       (/\ contextTtlMs # 0
        /\ Asked(m)
        /\ contexts[GetContextKey(m)].present) => ExpiryByAge(m)]_vars

C14_Witness ==
  /\ contextLog = "expired"
  /\ now = 700000
  /\ request.from # NoMsg
  /\ request.from \in pending
  /\ request.history = <<>>
  /\ ~contexts[GetContextKey(request.from)].present

\* C15: with a TTL of 0 no step changes the context store, and every call of
\* askOllama is handed an empty history
C15_DisabledMemoryUntouched ==
  [][contextTtlMs = 0 => (contexts' = contexts /\ request'.history = <<>>)]_vars

C15_Witness ==
  /\ contextTtlMs = 0
  /\ contextLog = "disabled"
  /\ \E k \in AllKeys : contexts[k].present
  /\ request.from = sent.to
  /\ sent.kind = "answer"
  /\ now > 0

\* C16: every turn of the history handed to askOllama for a message was stored
\* for a message with the same identifiers of the configured scope
C16_HistoryOfSameScopeIds ==
  \A i \in 1..Len(request.history) :
    AgreeOnScope(Origin(request.history[i]), request.from)

\* askOllama threw, or returned an empty or a blank text
Failed(res) == res.kind = "throw" \/ res.text \in {"", " "}

\* C17: a run that fails or yields a blank answer leaves the context store as
\* it was and its user gets an error message; a turn is stored only in the
\* step that ends a run whose answer is a text
C17_TurnOnlyForAnswer ==
  [][\A m \in Msgs :
       /\ (Settled(m) /\ Failed(sent'.on))
            => (/\ contexts' = contexts
                /\ sent'.to = m
                /\ sent'.kind \in AskErrors \cup {"errEmptyResponse"})
       /\ (\E k \in AllKeys : Len(contexts'[k].history) > 0
                              /\ contexts'[k] # contexts[k])
            => (\E a \in Msgs : Settled(a) /\ sent'.to = a
                                /\ ~Failed(sent'.on))]_vars

C17_Witness ==
  /\ sent.kind = "errIterations"
  /\ request.from = sent.to
  /\ pending = {}
  /\ contextTtlMs # 0
  /\ ~contexts[GetContextKey(sent.to)].present

\* C18: within one invocation, a url that is already in the invocation's
\* fetched set is never requested from the network again by a later web
\* fetch call, and a call that asks only for such urls returns the 'all URLs
\* already fetched' error naming them without any network request.
C18_NoRefetchInInvocation ==
  (call.phase # "idle" /\ call.caller # SearchTool) =>
    /\ \A i \in 1..idx : batch[i].url \notin call.known
    /\ (call.urls # <<>> /\ Range(call.urls) \subseteq call.known) =>
         /\ fetchResult = [kind |-> "errAllFetched", named |-> call.urls]
         /\ batch = <<>>

\* C19: the fetched-url set of an invocation is gone from the store once the
\* invocation has ended, whichever way it ended, and a call of one
\* invocation never skips a url only another invocation has fetched.
C19_FetchedSetDiesWithRun ==
  /\ \A k \in FetchKeys :
       (ollamaFetchedUrls[k].present /\ keyOwner[k] \in Invocations)
         => invocations[keyOwner[k]] = "active"
  /\ call.caller \in Invocations => Range(call.skipped) \subseteq call.known

SettledFetches == {i \in 1..Len(batch) : outcomes[i] # "none"}
Failures == {i \in SettledFetches : outcomes[i] = "threw"}
ItemsOf(i) == {j \in 1..Len(results) : results[j].url = batch[i].url}

\* C20: a failing fetch never fails the batch: every request whose fetch
\* throws or times out gives one item built from its snippet if it has one
\* and no item otherwise, so the results number the successful fetches plus
\* the failed requests that have a snippet.
C20_FailuresCostOnlyTheirItem ==
  call.caller = SearchTool =>
    /\ Len(results) = Cardinality(SettledFetches \ Failures)
         + Cardinality({i \in Failures : batch[i].content # NoText})
    /\ \A i \in Failures :
         IF batch[i].content # NoText
           THEN /\ Cardinality(ItemsOf(i)) = 1
                /\ \A j \in ItemsOf(i) :
                     results[j].text = Truncate(batch[i].content, WebMaxBytes)
           ELSE ItemsOf(i) = {}
    /\ (call.phase = "returned") =>
         (SettledFetches = 1..Len(batch) /\ fetchResult.kind = "pages")

\* five urls, three workers, the third fetch fails and has a snippet: five
\* results, one of them the snippet
C20_Witness ==
  /\ call.caller = SearchTool
  /\ call.phase = "returned"
  /\ Len(batch) = 5
  /\ webFetchConcurrency = 3
  /\ Failures = {3}
  /\ batch[3].content = Snippet
  /\ Len(results) = 5
  /\ \E j \in 1..Len(results) :
       results[j] = Item(batch[3], Snippet)

\* C21: registerTool fails for every call whose name is missing or empty,
\* whose description is missing or empty or whose handler is not a function;
\* a valid registration, also under a name that is already registered (the
\* built-in tool included), replaces the definition stored under the name.
C21_RegisterChecksAndReplaces ==
  lastOp.op = "registerTool" =>
    IF \/ lastOp.name \in {Undefined, ""}
       \/ lastOp.def.description \in {Undefined, ""}
       \/ lastOp.def.handler \notin Handlers
      THEN lastOp.result # "ok"
      ELSE /\ lastOp.result = "ok"
           /\ RegistryView[lastOp.name] = ToolObject(lastOp.name, lastOp.def)

\* a registration under the built-in name has replaced the built-in tool
C21_Witness ==
  /\ lastOp.op = "registerTool"
  /\ lastOp.name = TimeTool
  /\ lastOp.result = "ok"
  /\ RegistryView[TimeTool].handler = "h1"

\* C22: nothing a caller does to the value getTools returned changes what
\* the registry holds: not what later getTools calls return, nor the handler
\* a run would execute.
C22_ReturnedValueIsIndependent ==
  [][lastOp'.op = "caller" => RegistryView' = RegistryView]_vars

\* C23: after clearTools the registry holds exactly the built-in time tool
\* with its built-in definition, and the built-in name is registered in
\* every state.
C23_ClearRestoresBaseline ==
  /\ toolDefs[TimeTool] # NullObject
  /\ lastOp.op = "clearTools" =>
       RegistryView = [n \in RegNames |->
                         IF n = TimeTool THEN BuiltInTool ELSE NullObject]

\* C26: after every tool call the run dealt with (a handler result of any
\* value, an unknown tool, a skipped search) exactly one assistant tool-call
\* message followed by exactly one result message was appended to the
\* message list, and the next model call is made with that list.
C26_CallAndResultAppended ==
  handled.kind \in {"result", "notfound", "skipped"} =>
    /\ Len(handled.appended) = 2
    /\ handled.appended[1] = AssistantMsg(handled.name)
    /\ handled.appended[2].role = "user"
    /\ pc = "callN"
    /\ lastRequest.msgs = messages

\* C29: a run executes only tools of the catalog it advertised to the model
\* when it started, whatever was registered or cleared since.
C29_RunInsulatedFromRegistry ==
  /\ pc = "exec1" => toolName \in toolsArray
  /\ pc = "execN" => chainedToolName \in toolsArray

\* C30: when the model invokes a name that is not registered, no handler is
\* started, the 'Tool <name> not found' result is fed back, and the run goes
\* on to the next model call (unless the call was the last the iteration cap
\* allows).
C30_UnknownToolFedBack ==
  (handled.kind # "none" /\ ~handled.registered) =>
    /\ handled.kind = "notfound"
    /\ handled.appended =
         <<AssistantMsg(handled.name), UserMsg("notfound")>>
    /\ \/ pc = "callN" /\ lastRequest.msgs = messages
       \/ exitPath = "loopCap"

\* C27: a context whose lastUpdated is older than the TTL is discarded by the
\* next access of its key, getConversationHistory or storeConversationTurn: a
\* step that changes such a context removes it or leaves a history of the one
\* new turn, never the expired turns with a turn appended
C27_ExpiredTurnsNeverUsed ==
  [][\A k \in AllKeys :
       (/\ contextTtlMs # 0
        /\ contexts[k].present
        /\ now - contexts[k].lastUpdated > contextTtlMs
        /\ contexts'[k] # contexts[k])
         => \/ ~contexts'[k].present
            \/ /\ Len(contexts'[k].history) = 1
               /\ contexts'[k].history[1] \notin Range(contexts[k].history)]_vars

\* the context of the key k as storeConversationTurn leaves it for the run of
\* the message m that ended with an answer in this step
TurnAppended(k, m) ==
  /\ Settled(m)
  /\ GetContextKey(m) = k
  /\ IsAnswer(sent'.on)
  /\ sent'.to = m
  /\ contexts'[k].present
  /\ contexts'[k].history =
       KeepLastTurns(Append(contexts[k].history, Turn(m, sent'.on.text)),
                     contextTurns)

\* the context of the key k removed by getConversationHistory as expired
ContextExpired(k) ==
  /\ \E m \in Msgs : Asked(m) /\ GetContextKey(m) = k
  /\ contexts[k].present
  /\ now - contexts[k].lastUpdated > contextTtlMs
  /\ contexts'[k] = NoContext

\* C28 as stated: whatever runs overlap, every run that ends with an answer
\* appends its turn to the history of its key when it completes, and no step
\* changes a history otherwise than by such an append under the turn cap
C28_NoTurnLostButByCap ==
  [][/\ \A m \in Msgs :
          (Settled(m) /\ IsAnswer(sent'.on)) => TurnAppended(GetContextKey(m), m)
     /\ \A k \in AllKeys :
          \/ contexts'[k] = contexts[k]
          \/ \E m \in Msgs : TurnAppended(k, m)]_vars

\* C28: with the memory enabled, whatever runs overlap, every run that ends
\* with an answer appends its turn to the history of its key when it
\* completes, and no step changes a history otherwise than by such an append
\* under the turn cap or by the removal of the expired context
C28_NoTurnLostButByCapOrExpiry ==
  [][contextTtlMs # 0 =>
       /\ \A m \in Msgs :
            (Settled(m) /\ IsAnswer(sent'.on))
              => TurnAppended(GetContextKey(m), m)
       /\ \A k \in AllKeys :
            \/ contexts'[k] = contexts[k]
            \/ \E m \in Msgs : TurnAppended(k, m)
            \/ ContextExpired(k)]_vars

C28_Witness ==
  \E a \in Msgs, b \in Msgs :
    /\ a # b
    /\ GetContextKey(a) = GetContextKey(b)
    /\ request.from = b
    /\ sent.to = a
    /\ sent.kind = "answer"
    /\ pending = {}
    /\ contextTurns = 2
    /\ contexts[GetContextKey(a)].history =
         <<Turn(b, "t1"), Turn(a, sent.on.text)>>

\* C24: at most one summarization task runs for a context key at any time,
\* the lock of a key being held exactly while its task runs, and a call of
\* storeTurn for a key whose lock is held starts no summarization: the
\* trigger is skipped and the tasks and locks stay as they were
C24_OneSummarizationPerKey ==
  /\ [](\A k \in AllKeys : /\ Cardinality(TasksOf(k)) <= 1
                           /\ (k \in summaryLocks) = (TasksOf(k) # {}))
  /\ [][\A m \in SummaryMsgs :
          (StoreTurn(m, "t1") /\ GetContextKey(m) \in summaryLocks)
            => /\ summaryTasks' = summaryTasks
               /\ summaryLocks' = summaryLocks
               /\ sumEvent' = SumEvent("skippedLocked", GetContextKey(m))]_vars

C24_Witness ==
  \E k \in AllKeys :
    /\ sumEvent = SumEvent("skippedLocked", k)
    /\ Cardinality(TasksOf(k)) = 1
    /\ \E i \in TasksOf(k) :
         contexts[k].history # summaryTasks[i].toSummarize \o summaryTasks[i].keep
    /\ \E j \in AllKeys \ {k} : TasksOf(j) # {}

\* the summarization task i fails or times out in this step
TaskFails(i) ==
  /\ i \in DOMAIN summaryTasks
  /\ summaryTasks' = RemoveAt(summaryTasks, i)
  /\ sumEvent'.kind \in SummaryFailures
  /\ sumEvent'.key = summaryTasks[i].key

\* the failed task released its lock, reported nothing, and the next call of
\* storeTurn that leaves enough older turns starts a summarization again
LockFreedSilently(k) ==
  /\ k \notin summaryLocks'
  /\ sent' = sent

RestartsAfterFailure ==
  \A m \in SummaryMsgs :
    (/\ sumEvent.kind \in SummaryFailures
     /\ sumEvent.key = GetContextKey(m)
     /\ StoreTurn(m, "t1")
     /\ Len(contexts'[GetContextKey(m)].history) >= KeepRawTurns + MinTurnsToSummarize)
      => /\ sumEvent' = SumEvent("started", GetContextKey(m))
         /\ GetContextKey(m) \in summaryLocks'

\* C25 as stated: when a summarization fails or times out, the history and
\* the summary of its key are what they were when it started, its lock is
\* released and nothing is sent to the user
C25_FailureRestoresStart ==
  [][\A i \in DOMAIN summaryTasks :
       TaskFails(i) =>
         LET task == summaryTasks[i]
         IN /\ contexts'[task.key].history = task.toSummarize \o task.keep
            /\ SummaryPrompt(summaries'[task.key]) = task.prompt
            /\ LockFreedSilently(task.key)]_vars

\* C25: a summarization that fails or times out changes neither the history
\* nor the summary of any key: the summary is what it was when the task
\* started, and the history is what the calls of storeTurn made meanwhile
\* left; its lock is released, so that the next call of storeTurn with enough
\* older turns starts a summarization, and nothing is sent to the user
C25_FailureChangesNothing ==
  /\ [][\A i \in DOMAIN summaryTasks :
          TaskFails(i) =>
            LET task == summaryTasks[i]
            IN /\ contexts' = contexts
               /\ summaries' = summaries
               /\ summarizedUntil' = summarizedUntil
               /\ SummaryPrompt(summaries'[task.key]) = task.prompt
               /\ LockFreedSilently(task.key)]_vars
  /\ [][RestartsAfterFailure]_vars

C25_Witness ==
  \E k \in AllKeys :
    /\ sumEvent = SumEvent("timeout", k)
    /\ k \notin summaryLocks
    /\ summaries[k].present
    /\ Len(contexts[k].history) = KeepRawTurns + MinTurnsToSummarize
    /\ \E j \in AllKeys \ {k} : j \in summaryLocks

\* C31: a tool call with an empty name and no hint in its arguments starts no
\* handler, and the model call that follows it carries no tool list
C31_NamelessCallAnsweredDirectly ==
  (handled.kind # "none" /\ handled.name = Nameless) =>
    /\ handled.kind = "notfound"
    /\ pc = "callN" => lastRequest.tools = {}

\* the last min(Len(all), n) entries of the sequence, in their order
MostRecent(all, n) ==
  SubSeq(all, Len(all) - Min(Len(all), n) + 1, Len(all))

\* the run of the message m ended with an answer in this step and
\* storeConversationTurn stored its turn under the key k
TurnStored(k, m) ==
  /\ Settled(m)
  /\ GetContextKey(m) = k
  /\ IsAnswer(sent'.on)
  /\ contextTtlMs # 0

\* C32: the history of a key is the most recent min(n, CONTEXT_TURNS) turns
\* stored under it since its context was created, in the order they were
\* stored: a step that stores a turn makes the history the most recent
\* CONTEXT_TURNS turns of the old history with the new turn appended, and
\* every other step leaves the history as it was or removes the whole
\* context as expired
C32_HistoryIsMostRecentTurns ==
  [][\A k \in AllKeys :
       IF \E m \in Msgs : TurnStored(k, m)
         THEN \E m \in Msgs :
                /\ TurnStored(k, m)
                /\ contexts'[k].history =
                     MostRecent(contexts[k].history
                                  \o <<[user |-> m.text,
                                        assistant |-> sent'.on.text,
                                        userId |-> IF contextScope = "room"
                                                     THEN UserId(m) ELSE ""]>>,
                                contextTurns)
         ELSE \/ contexts'[k].history = contexts[k].history
              \/ ContextExpired(k)]_vars

C32_Witness ==
  /\ contextTurns = 1
  /\ now = 500000
  /\ sent.kind = "answer"
  /\ request.from = sent.to
  /\ sent.to \notin pending
  /\ Len(request.history) = 1
  /\ request.history[1] # Turn(sent.to, sent.on.text)
  /\ contexts[GetContextKey(sent.to)].history = <<Turn(sent.to, sent.on.text)>>

\* the request indices whose webFetch has settled
TakenAndSettled == {i \in 1..Len(batch) : outcomes[i] # "none"}

\* C33: every request index of the batch is taken exactly once: the indices
\* taken so far are those up to the cursor, each either awaited by the one
\* worker that took it or settled, never both, and when no worker is left
\* every index of the batch has settled
C33_EachIndexTakenOnce ==
  /\ idx <= Len(batch)
  /\ inFlight \cup TakenAndSettled = 1..idx
  /\ inFlight \cap TakenAndSettled = {}
  /\ inFlight = {} => TakenAndSettled = 1..Len(batch)

C33_Witness ==
  /\ webFetchConcurrency = 2
  /\ Len(batch) = WebMaxResults
  /\ inFlight = {}
  /\ TakenAndSettled = 1..WebMaxResults
  /\ outcomes[1] = "threw"
  /\ outcomes[2] = "returned"

\* C34: the fetches in flight are never more than WEB_FETCH_CONCURRENCY nor
\* more than the requests of the batch
C34_InFlightWithinConcurrency ==
  /\ Cardinality(inFlight) <= webFetchConcurrency
  /\ Cardinality(inFlight) <= Len(batch)

C34_Witness ==
  /\ Cardinality(inFlight) = webFetchConcurrency
  /\ webFetchConcurrency < Len(batch)
  /\ idx > webFetchConcurrency
  /\ 1 \in inFlight

FetchedNow == {batch[i].url : i \in {j \in 1..Len(batch) : outcomes'[j] = "returned"}}

\* the urls the step adds to the fetched urls of the key
AddedUrls(k) == Range(ollamaFetchedUrls'[k].urls) \ Range(ollamaFetchedUrls[k].urls)

FetchErrors == {"errNoUrls", "errAllFetched", "errNoPages"}

\* C36: the fetched urls of a key grow only by urls whose fetch returned in
\* the call that ends with pages under that key; a call of the web fetch tool
\* that ends in an error adds no url to any key, so the urls whose fetch
\* failed are not in the set and can be requested again
C36_FetchedSetGrowsBySuccessOnly ==
  [][\A k \in FetchKeys :
       /\ AddedUrls(k) # {} =>
            /\ k = call.key
            /\ call.phase = "fetching"
            /\ fetchResult'.kind = "pages"
            /\ AddedUrls(k) \subseteq FetchedNow
       /\ (call'.phase = "returned" /\ fetchResult'.kind \in FetchErrors)
            => AddedUrls(k) = {}
       /\ (call'.phase = "returned" /\ call.phase = "fetching")
            => \A i \in 1..Len(batch) :
                 outcomes'[i] = "threw"
                   => batch[i].url \notin AddedUrls(k)]_vars

C36_Witness ==
  /\ call.phase = "returned"
  /\ call.caller \in Invocations
  /\ fetchResult.kind = "pages"
  /\ call.urls = <<"u1", "u2">>
  /\ outcomes = <<"threw", "returned">>
  /\ ollamaFetchedUrls[call.key].urls = <<"u2">>

\* C37: the name of every tool object of the registry is the key it is
\* stored under
C37_NameIsRegistryKey ==
  \A n \in RegNames : toolDefs[n] # NullObject => toolDefs[n].name = n

\* C39: a call of registerTool that fails a check leaves the registry as it
\* was: no entry is added, removed or changed, and the values getTools
\* returned earlier stay as they were
C39_FailedRegisterChangesNothing ==
  [][(lastOp'.op = "registerTool" /\ lastOp'.result # "ok")
       => (toolDefs' = toolDefs /\ returnedTools' = returnedTools)]_vars

C39_Witness ==
  /\ lastOp.op = "registerTool"
  /\ lastOp.result = "errDescription"
  /\ lastOp.name = TimeTool
  /\ lastOp.def.handler = TimeHandler
  /\ toolDefs[TimeTool].handler = "h1"
  /\ toolDefs[WebSearch] # NullObject

\* C38: ollama.show is called at most once in the life of the process, and
\* once the cache holds an answer that answer never changes; a probe that
\* throws is cached as no tool support
C38_ProbedAtMostOnce ==
  /\ [](showCalls <= 1)
  /\ [][modelSupportsCached # "null"
         => modelSupportsCached' = modelSupportsCached]_vars

\* C40: a prompt given to the process-spawning script has one outcome: the
\* completion callback is invoked at most once, exactly once when the child
\* has closed, and after the timeout fired it is invoked with the timeout
\* error
C40_OneOutcomePerPrompt ==
  /\ Len(callbacks) <= 1
  /\ child = "closed" => Len(callbacks) = 1
  /\ \A i \in 1..Len(callbacks) : timedOut => callbacks[i].err = TimeoutErr
====
